---- MODULE Spec2Model ----
(***************************************************************************)
(* meta-cms-worker: the task dispatcher (src/task), the Git service        *)
(* (src/git) and the Hexo service (src/hexo) as one state machine.         *)
(* One behaviour is one invocation of startWorkerTask on one task          *)
(* descriptor.  Every awaited orchestrator call is one action; a call      *)
(* that rejects ends the invocation.  The per-post fan-out of the Hexo     *)
(* service is the one place where steps of several async functions         *)
(* interleave, so each generator call of each post is its own action.      *)
(***************************************************************************)
EXTENDS Integers, Sequences, FiniteSets, TLC

\* ------------------------------------------------------------------ bounds
\* Longest post batch of a task descriptor.
MaxPosts == 2

\* Most ticks of the health check in one run.
MaxBeats == 1

\* ------------------------------------------------------------- task input
SiteTasks == {"DEPLOY_SITE", "PUBLISH_SITE"}

PostTasks == {"CREATE_POSTS", "UPDATE_POSTS", "DELETE_POSTS"}

\* The allow-list with a method of the older task enum let through.
AllowedTasksWithLegacy == SiteTasks \cup PostTasks \cup {"HEXO_CREATE_POST"}

AllowedTasks == SiteTasks \cup PostTasks

\* Methods a descriptor may name that the dispatcher does not know: two of
\* the older enum (startGitTask's allow-list) stand for all of them.
OtherMethods == {"GIT_COMMIT_PUSH", "HEXO_CREATE_POST"}

Methods == AllowedTasks \cup OtherMethods

Titles == {"A", "B", "A B"}

\* A property the post record does not carry (JavaScript undefined).
Undefined == "undefined"

\* MetaWorker.Info.Post, the fields the orchestration reads: the title and
\* the rename marker META_SPACE_INTERNAL_NEW_TITLE, which is absent
\* (Undefined), a new title or, for one post, present and empty.  No post
\* carries another key that starts with META_SPACE_INTERNAL.
Posts == ({[title |-> t, newTitle |-> n] :
             t \in Titles, n \in (Titles \cup {Undefined})} \
          {[title |-> t, newTitle |-> t] : t \in Titles})
         \cup {[title |-> "A", newTitle |-> ""]}

\* The title is the content key within a batch: titles are pairwise
\* distinct.  The processers of a batch interleave freely and the batch
\* order decides only the order of the reports, so one order of every set
\* of titles is enumerated.
TitleRank(t) == CASE t = "A" -> 1 [] t = "B" -> 2 [] OTHER -> 3

DistinctTitles(s) ==
  \A i, j \in 1..Len(s) : i < j => TitleRank(s[i].title) < TitleRank(s[j].title)

Batches == {s \in UNION {[1..n -> Posts] : n \in 0..MaxPosts} : DistinctTitles(s)}

\* taskConfig.post is one post or an array of posts.
PostInputs == {[isArray |-> FALSE, data |-> <<p>>] : p \in Posts} \cup
              {[isArray |-> TRUE, data |-> s] : s \in Batches}

NoPost == [isArray |-> FALSE, data |-> <<>>]

\* The value of Date.now() in a commit message: no step reads it back.
Now == "Date.now()"

\* hexo-util slugize, as getPostPath applies it to a title: whitespace
\* becomes a dash.
Slugize(title) == IF title = "A B" THEN "A-B" ELSE title

\* HexoCommandHelper.getPostPath: the new_post_path filter in replace mode.
PostPath(title) == Slugize(title)

\* What the remote storage branch may hold.
RemoteContents == SUBSET {PostPath("A"), PostPath("B")}

Handles == {"storage", "pages"}

\* MetaWorker.Enums.GitServiceType, and a value outside of it.
SupportedTypes == {"GITHUB", "GITEE"}

ServiceTypes == SupportedTypes \cup {"GITLAB"}

\* taskConf.git of a task: storage for every task, publisher for a publish
\* task.  The two supported types behave alike: one is tried for each
\* descriptor.
GitInfos(m) == [storage : ServiceTypes \ {"GITEE"},
                publisher : IF m = "PUBLISH_SITE" THEN ServiceTypes \ {"GITHUB"}
                            ELSE {Undefined}]

VARIABLES
  taskMethod,   \* taskConf.task.taskMethod
  post,         \* taskConf.post
  remotePosts,  \* post files on the remote storage branch
  pc,           \* 0 before checkAllowedTasks, then the index of the next step
  outcome,      \* of startWorkerTask: "idle" before it is called, then
                \* "running", "resolved" or "rejected"
  error,        \* the error startWorkerTask rejected with
  calls,        \* factory and orchestrator methods invoked, in order
  gitLog,       \* commands issued to the Git command and auth helpers
  auth,         \* per repository handle: credentials configured
  remote,       \* per repository handle: a remote named origin exists
  files,        \* post files in the workspace source directory
  build,        \* the generator run this.hexo.generate() makes
  jobs,         \* the promise jobs queued and not yet run, first first
  fan,          \* the per-post fan-out: "idle", "running", "joined"
  pst,          \* per post of the batch: its processer's progress
  reports,      \* error reports delivered to the backend, in order
  site,         \* taskConf.site of a site task
  layers,       \* the default and the template generator config
  hexoConfigFile, \* the workspace's generator config file
  merged,       \* the merges updateWorkspaceHexoConfigFile made, in order
  confFiles,    \* the workspace's theme config and space config files
  initLog,      \* the steps HexoService.initialize made, in order
  metadata,     \* taskConf.metadata
  tpl,          \* the shared generator directory: path |-> content
  fsLog,        \* file operations made on the generator directory, in order
  serviceType,  \* taskConf.git: the service type of storage and publisher
  boot,         \* bootstrap's position: "start", "started", "task", then
                \* "finished", "rejected" or "crashed"
  backend,      \* the calls bootstrap made to the backend service, in order
  link          \* per symlink destination of the generator directory: the
                \* progress of its createSymlink and the contents around it

vars == <<taskMethod, post, remotePosts, pc, outcome, error, calls, gitLog, jobs,
          auth, remote, files, build, fan, pst, reports, site, layers,
          hexoConfigFile, merged, confFiles, initLog, metadata, tpl, fsLog,
          serviceType, boot, backend, link>>

input == <<taskMethod, post, remotePosts, site, layers, serviceType,
           metadata>>

\* ---------------------------------------------------------------- helpers
\* A JavaScript value that is neither undefined nor the empty string.
Truthy(v) == v # Undefined /\ v # ""

Call(op) == [op |-> op, update |-> FALSE, msg |-> <<>>]

NoError == [op |-> "", cmd |-> ""]

Ops(s) == [i \in 1..Len(s) |-> s[i].op]

Count(s, x) == Cardinality({i \in 1..Len(s) : s[i] = x})

Index(s, x) == IF \E i \in 1..Len(s) : s[i] = x
               THEN CHOOSE i \in 1..Len(s) : s[i] = x /\ \A j \in 1..(i-1) : s[j] # x
               ELSE 0

Last(s) == s[Len(s)]

\* utils makeArray
MakeArray(p) == IF p.isArray THEN p.data ELSE <<p.data[1]>>

\* ------------------------------------------------------ the dispatcher
Step(op) == [op |-> op, update |-> FALSE, msg |-> <<>>]

\* commitStorageRepositoryAllChanges(`${template} ${Date.now()}`)
Commit(template) == [op |-> "commitStorageRepositoryAllChanges", update |-> FALSE,
                     msg |-> <<template, Now>>]

CreatePosts(update) == [op |-> "createHexoPostFiles", update |-> update, msg |-> <<>>]

\* startWorkerTask, DEPLOY_SITE, with the commit and the push exchanged.
DeployPipelinePushFirst ==
  <<Step("gitServiceFactory"), Step("createStorageRepository"),
    Step("hexoServiceFactory"), Step("createWorkspaceSourceDirectory"),
    Step("pushStorageRepositoryToRemote"), Commit("Deploy site")>>

\* startWorkerTask, the calls awaited for DEPLOY_SITE.
DeployPipeline ==
  <<Step("gitServiceFactory"), Step("createStorageRepository"),
    Step("hexoServiceFactory"), Step("createWorkspaceSourceDirectory"),
    Commit("Deploy site"), Step("pushStorageRepositoryToRemote")>>

\* startWorkerTask, PUBLISH_SITE, without the symlink step.
PublishPipelineNoSymlink ==
  <<Step("gitServiceFactory"), Step("fetchRemoteStorageRepository"),
    Step("hexoServiceFactory"), Commit("Update config"),
    Step("pushStorageRepositoryToRemote"),
    Step("generateHexoStaticFiles"),
    Step("createDotNoJekyllAndCNameFile"), Step("publishSiteToGitHubPages")>>

\* startWorkerTask, PUBLISH_SITE, committing and pushing the storage
\* repository after the marker files are written.
PublishPipelineCommitLast ==
  <<Step("gitServiceFactory"), Step("fetchRemoteStorageRepository"),
    Step("hexoServiceFactory"),
    Step("symlinkWorkspaceDirectoryAndFiles"), Step("generateHexoStaticFiles"),
    Step("createDotNoJekyllAndCNameFile"), Commit("Update config"),
    Step("pushStorageRepositoryToRemote"), Step("publishSiteToGitHubPages")>>

\* startWorkerTask, the calls awaited for PUBLISH_SITE.
PublishPipeline ==
  <<Step("gitServiceFactory"), Step("fetchRemoteStorageRepository"),
    Step("hexoServiceFactory"), Commit("Update config"),
    Step("pushStorageRepositoryToRemote"),
    Step("symlinkWorkspaceDirectoryAndFiles"), Step("generateHexoStaticFiles"),
    Step("createDotNoJekyllAndCNameFile"), Step("publishSiteToGitHubPages")>>

\* The calls before a post task's middle step with the Git service made
\* again before the symlink step.
PostPreambleSecondGitService ==
  <<Step("gitServiceFactory"), Step("fetchRemoteStorageRepository"),
    Step("hexoServiceFactory"), Step("gitServiceFactory"),
    Step("symlinkWorkspaceDirectoryAndFiles")>>

\* The calls before a post task's middle step with the Site service made
\* before the storage repository is fetched.
PostPreambleSiteFirst ==
  <<Step("gitServiceFactory"), Step("hexoServiceFactory"),
    Step("fetchRemoteStorageRepository"),
    Step("symlinkWorkspaceDirectoryAndFiles")>>

\* startWorkerTask, the calls of every post task before its middle step.
PostPreamble ==
  <<Step("gitServiceFactory"), Step("fetchRemoteStorageRepository"),
    Step("hexoServiceFactory"), Step("symlinkWorkspaceDirectoryAndFiles")>>

CreatePostsPipeline ==
  PostPreamble \o <<CreatePosts(FALSE), Commit("Create post"),
                    Step("pushStorageRepositoryToRemote")>>

\* startWorkerTask, UPDATE_POSTS, calling createHexoPostFiles without replace.
UpdatePostsPipelineNoReplace ==
  PostPreamble \o <<CreatePosts(FALSE), Commit("Update post"),
                    Step("pushStorageRepositoryToRemote")>>

UpdatePostsPipeline ==
  PostPreamble \o <<CreatePosts(TRUE), Commit("Update post"),
                    Step("pushStorageRepositoryToRemote")>>

DeletePostsPipeline ==
  PostPreamble \o <<Step("deleteHexoPostFiles"), Commit("Delete post"),
                    Step("pushStorageRepositoryToRemote")>>

\* The ordered calls startWorkerTask awaits for each method: one if-block
\* per method, none for a method no block names.
Pipeline(m) ==
  CASE m = "DEPLOY_SITE" -> DeployPipeline
    [] m = "PUBLISH_SITE" -> PublishPipeline
    [] m = "CREATE_POSTS" -> CreatePostsPipeline
    [] m = "UPDATE_POSTS" -> UpdatePostsPipeline
    [] m = "DELETE_POSTS" -> DeletePostsPipeline
    [] OTHER -> <<>>

Current == Pipeline(taskMethod)[pc]

\* The dispatcher is at its call of op: no promise job is left to run
\* before it and no rejection is left unhandled.
At(op) == /\ outcome = "running"
          /\ pc \in 1..Len(Pipeline(taskMethod))
          /\ Current.op = op
          /\ jobs = <<>>
          /\ build # "rejected"

\* The awaited call resolved: the dispatcher goes on to the next call, and
\* startWorkerTask resolves after the last one.
Advance ==
  /\ pc' = pc + 1
  /\ outcome' = IF pc + 1 > Len(Pipeline(taskMethod)) THEN "resolved" ELSE "running"
  /\ error' = error

\* The awaited call rejected and is awaited again.
RejectAndRetry(op, cmd) ==
  /\ pc' = pc
  /\ outcome' = "running"
  /\ error' = error

\* The awaited call rejected: no try/catch in startWorkerTask, it rejects.
Reject(op, cmd) ==
  /\ pc' = pc
  /\ outcome' = "rejected"
  /\ error' = [op |-> op, cmd |-> cmd]

Invoke(op) == calls' = Append(calls, Call(op))

\* ------------------------------------------------- the generator config
\* Keys of the generator main config: title is also derived from the task,
\* theme is also set by the generator's own defaults, custom by neither.
ConfigKeys == {"title", "theme", "custom"}

\* No such key in the object.
Absent == "absent"

Null == "null"

EmptyConf == [k \in ConfigKeys |-> Absent]

\* The partial configs in which every key present has value v.
PartialConfs(v) == [ConfigKeys -> {Absent, v}]

\* hexo/lib/hexo/default_config
HexoInternalConfig == [title |-> "Hexo", theme |-> "landscape", custom |-> Absent]

Sites == [title : {Undefined, "T"}, domain : {"", "a.io"}]

\* A config file that is missing, or that cannot be read or parsed.
NoFile == [kind |-> "ENOENT", conf |-> EmptyConf]

BadFile == [kind |-> "unparseable", conf |-> EmptyConf]

\* A config file that yaml.parse reads as c.
YamlFile(c) == [kind |-> "yaml", conf |-> c]

\* yamlFileToObject behind exists() and try/catch: a missing or unreadable
\* file is read as {}.
ReadConfigFile(f) == IF f.kind = "yaml" THEN f.conf ELSE EmptyConf

\* { ...a, ...b }: every own key of b, an undefined value included, wins.
Spread(a, b) == [k \in DOMAIN a |-> IF b[k] # Absent THEN b[k] ELSE a[k]]

\* HexoService.getDefaultHexoConfig
GetDefaultHexoConfig == layers.deft

\* HexoService.getHexoConfigFromTemplate
GetHexoConfigFromTemplate ==
  ReadConfigFile(layers.temp)

\* HexoService.getHexoConfigFromTaskConfig
GetHexoConfigFromTaskConfig ==
  IF taskMethod \in SiteTasks
    THEN [EmptyConf EXCEPT !["title"] = site.title]
    ELSE EmptyConf

DEFAULT_HEXO_PUBLIC_URL == "https://example.com"

\* The TypeError of a failed assert.
Throws == "TypeError"

\* formatUrl(url): assert(url) throws for an undefined or empty url; a url
\* without scheme is prefixed with https://.
FormatUrl(url) == IF ~Truthy(url) THEN Throws ELSE "https://" \o url

\* url: formatUrl(site.domain) || DEFAULT_HEXO_PUBLIC_URL, the 'url' key of
\* the task layer of a site task: the default is used for a falsy result
\* of formatUrl, an exception of formatUrl is not caught.
TaskUrl ==
  LET u == FormatUrl(site.domain)
  IN IF u = Throws THEN Throws
     ELSE IF Truthy(u) THEN u ELSE DEFAULT_HEXO_PUBLIC_URL

\* getHexoConfigFromTaskConfig rejects: nothing catches formatUrl's assert.
TaskLayerThrows == taskMethod \in SiteTasks /\ TaskUrl = Throws

\* HexoService.getHexoConfigFromWorkspace
GetHexoConfigFromWorkspace ==
  ReadConfigFile(hexoConfigFile)

\* The merge with the workspace layer spread last.
FinalConfWorkspaceLast(deft, hexo, temp, work, user) ==
  Spread(Spread(Spread(Spread(deft, hexo), temp), user), work)

\* const finalConf = { ...deftConf, ...hexoConf, ...tempConf, ...workConf, ...userConf }
FinalConf(deft, hexo, temp, work, user) ==
  Spread(Spread(Spread(Spread(deft, hexo), temp), work), user)

\* yaml.stringify then yaml.parse: a key whose value is undefined is left
\* out or comes back as null, depending on the yaml library's version.
YamlFiles(c) ==
  {YamlFile([k \in DOMAIN c |-> IF c[k] = Undefined THEN Absent ELSE c[k]]),
   YamlFile([k \in DOMAIN c |-> IF c[k] = Undefined THEN Null ELSE c[k]])}

\* One run of updateWorkspaceHexoConfigFile, as recorded in merged.
Merge ==
  LET deft == GetDefaultHexoConfig
      temp == GetHexoConfigFromTemplate
      user == GetHexoConfigFromTaskConfig
      work == GetHexoConfigFromWorkspace
  IN [deft |-> deft, hexo |-> HexoInternalConfig, temp |-> temp,
      work |-> work, user |-> user,
      final |-> FinalConf(deft, HexoInternalConfig, temp, work, user)]

\* HexoService.updateWorkspaceHexoConfigFile: merge, then write the file
\* (written = FALSE: objectToYamlFile throws and the file is as before).
UpdateWorkspaceHexoConfigFile(written) ==
  /\ merged' = Append(merged, Merge)
  /\ IF written THEN hexoConfigFile' \in YamlFiles(Merge.final)
     ELSE hexoConfigFile' = hexoConfigFile

\* The worker image: no default config file, the template's own config.
ImageLayers == [deft |-> EmptyConf,
                temp |-> YamlFile([title |-> "temp", theme |-> "temp",
                                   custom |-> "temp"]),
                theme |-> YamlFile([title |-> Absent, theme |-> Absent,
                                    custom |-> "temp"])]

\* The config file on the storage branch.
RemoteConfigFile == YamlFile([title |-> "work", theme |-> "work", custom |-> Absent])

\* A config file whose fs.access fails with an error other than ENOENT
\* (EACCES, ELOOP, ENOTDIR): exists() rethrows it.
Inaccessible == [kind |-> "EACCES", conf |-> EmptyConf]

\* exists(path): false on ENOENT, true on success, any other error thrown.
ExistsThrows(f) == f.kind = "EACCES"

\* HexoService.getThemeConfigFromTemplate
GetThemeConfigFromTemplate ==
  ReadConfigFile(layers.theme)

\* HexoService.getThemeConfigFromWorkspace
GetThemeConfigFromWorkspace ==
  ReadConfigFile(confFiles.theme)

\* const finalConf = { ...tempConf, ...workConf }
ThemeConf == Spread(GetThemeConfigFromTemplate, GetThemeConfigFromWorkspace)

\* Keys of the space config: site stands for the keys only a deploy task
\* sets (user, site, theme, gateway), metadata for the key a deploy task
\* and a publish task set.
SpaceKeys == {"site", "metadata"}

EmptySpace == [k \in SpaceKeys |-> Absent]

\* HexoService.getMetaSpaceConfigFromWorkspace
GetMetaSpaceConfigFromWorkspace ==
  IF confFiles.space.kind = "yaml" THEN confFiles.space.conf ELSE EmptySpace

\* The task-derived layer with metadata for every task kind.
TaskSpaceConfMetadataAlways ==
  IF taskMethod = "DEPLOY_SITE"
    THEN [site |-> site.domain, metadata |-> metadata]
    ELSE [site |-> Absent, metadata |-> metadata]

\* HexoService.getMetaSpaceConfigFromTaskConfig: the site object is told
\* by its domain.
GetMetaSpaceConfigFromTaskConfig ==
  IF taskMethod = "DEPLOY_SITE"
    THEN [site |-> site.domain, metadata |-> metadata]
  ELSE IF taskMethod = "PUBLISH_SITE"
    THEN [site |-> Absent, metadata |-> metadata]
  ELSE EmptySpace

\* const finalConf = { ...workConf, ...taskConf }
SpaceConf == Spread(GetMetaSpaceConfigFromWorkspace,
                    GetMetaSpaceConfigFromTaskConfig)

\* The theme config and the space config on the storage branch.
RemoteConfFiles ==
  [theme |-> YamlFile([title |-> Absent, theme |-> Absent, custom |-> "work"]),
   space |-> YamlFile([site |-> "b.io", metadata |-> "work"])]

\* A workspace without theme config and space config.
NoConfFiles == [theme |-> NoFile, space |-> NoFile]

\* HexoService.initialize, the awaited calls in order.
InitializeStepsHelperFirst ==
  <<"createCommandHelper", "updateWorkspaceHexoConfigFile",
    "updateWorkspaceThemeConfigFile", "updateWorkspaceMetaSpaceConfigFile">>

InitializeSteps ==
  <<"updateWorkspaceHexoConfigFile", "updateWorkspaceThemeConfigFile",
    "updateWorkspaceMetaSpaceConfigFile", "createCommandHelper">>

\* The files whose exists() an update awaits outside its try/catch; the
\* theme update reads the workspace main config the main update wrote.
LayersRead(step) ==
  CASE step = "updateWorkspaceHexoConfigFile" -> {layers.temp, hexoConfigFile}
    [] step = "updateWorkspaceThemeConfigFile" ->
         {layers.temp, layers.theme, confFiles.theme}
    [] step = "updateWorkspaceMetaSpaceConfigFile" -> {confFiles.space}
    [] OTHER -> {}

\* The first step of initialize in which exists() throws, 0 if in none.
FirstThrow ==
  LET at == {k \in 1..Len(InitializeSteps) :
               \/ \E f \in LayersRead(InitializeSteps[k]) : ExistsThrows(f)
               \/ k = 1 /\ TaskLayerThrows}
  IN IF at = {} THEN 0 ELSE CHOOSE k \in at : \A j \in at : k <= j

\* Where initialize can reject: at any step, and no later than the first
\* step in which exists() throws (0: it resolves).
InitFailPoints ==
  IF FirstThrow = 0 THEN 0..Len(InitializeSteps) ELSE 1..FirstThrow

\* The steps of initialize with the command helper started after the
\* step that failed.
InitStepsHelperAfterFailure(failAt) ==
  IF failAt \in 1..3
    THEN [k \in 1..failAt |->
            [step |-> InitializeSteps[k], ok |-> k # failAt,
             reason |-> IF k # failAt THEN "" ELSE "objectToYamlFile"]]
         \o <<[step |-> "createCommandHelper", ok |-> TRUE, reason |-> ""]>>
    ELSE [k \in 1..(IF failAt = 0 THEN Len(InitializeSteps) ELSE failAt) |->
            [step |-> InitializeSteps[k], ok |-> k # failAt,
             reason |-> IF k # failAt THEN "" ELSE "createCommandHelper"]]

\* What step k of initialize rejected with.
InitReason(k) ==
  IF k = FirstThrow
    THEN IF k = 1 /\ TaskLayerThrows /\ ~ExistsThrows(layers.temp)
           THEN "formatUrl" ELSE "exists"
  ELSE IF InitializeSteps[k] = "createCommandHelper" THEN "createCommandHelper"
  ELSE "objectToYamlFile"

\* The steps initialize makes when it rejects at step failAt.
InitSteps(failAt) ==
  [k \in 1..(IF failAt = 0 THEN Len(InitializeSteps) ELSE failAt) |->
     [step |-> InitializeSteps[k], ok |-> k # failAt,
      reason |-> IF k # failAt THEN "" ELSE InitReason(k)]]

\* Step number of a step of initialize.
StepNo(step) == CHOOSE k \in 1..Len(InitializeSteps) : InitializeSteps[k] = step

\* HexoService.initialize rejecting at step failAt: an update that was
\* reached and whose reads did not throw merges; one that resolved wrote.
Initialize(failAt) ==
  LET wrote(step) == failAt = 0 \/ StepNo(step) < failAt
  IN /\ initLog' = initLog \o InitSteps(failAt)
     /\ IF failAt = 1 /\ FirstThrow = 1
          THEN UNCHANGED <<merged, hexoConfigFile>>
          ELSE UpdateWorkspaceHexoConfigFile(wrote("updateWorkspaceHexoConfigFile"))
     /\ \E th \in (IF wrote("updateWorkspaceThemeConfigFile")
                     THEN YamlFiles(ThemeConf) ELSE {confFiles.theme}),
           sp \in (IF wrote("updateWorkspaceMetaSpaceConfigFile")
                     THEN YamlFiles(SpaceConf) ELSE {confFiles.space}) :
          confFiles' = [theme |-> th, space |-> sp]

\* ------------------------------------------- the generator directory
\* The output directory (publish.publishDir || 'public') and its markers.
PublicDir == "public"

NoJekyllPath == "public/.nojekyll"

CNamePath == "public/CNAME"

TemplatePaths == {PublicDir, NoJekyllPath, CNamePath}

Dir == "directory"

\* One file operation: Len(calls) tells the orchestrator call making it.
FsOp(op, path, data) == [op |-> op, path |-> path, data |-> data]

\* createDotNoJekyllFile without its exists() test.
CreateDotNoJekyllFileAlways(t) == <<FsOp("writeFile", NoJekyllPath, "\n")>>

\* HexoService.createDotNoJekyllFile(workDir): the operations it makes on t.
CreateDotNoJekyllFile(t) ==
  IF t[NoJekyllPath] # Absent THEN <<>>
  ELSE <<FsOp("writeFile", NoJekyllPath, "\n")>>

\* HexoService.createCNameFile(workDir, content)
CreateCNameFile(t, content) ==
  IF ~Truthy(content) THEN <<>>
  ELSE <<FsOp("mkdir", PublicDir, Dir)>> \o
       (IF t[CNamePath] # Absent THEN <<>>
        ELSE <<FsOp("writeFile", CNamePath, content \o "\n")>>)

\* The effect of one file operation that succeeds.
FsApply(t, o) ==
  CASE o.op = "writeFile" -> [t EXCEPT ![o.path] = o.data]
    [] o.op = "mkdir" -> [t EXCEPT ![o.path] = Dir]
    [] OTHER -> t

RECURSIVE FsAfter(_, _, _)
FsAfter(t, prog, k) ==
  IF k = 0 THEN t ELSE FsApply(FsAfter(t, prog, k - 1), prog[k])

\* The operation cannot succeed on t: a file written into a missing directory.
FsMustFail(t, o) == o.op = "writeFile" /\ t[PublicDir] = Absent

\* Where a run of prog on t can fail: nowhere (0), or at an operation before
\* which no operation had to fail; an operation that must fail does.
FsFailPoints(t, prog) ==
  {f \in 0..Len(prog) :
     /\ \A k \in 1..Len(prog) :
          (k < f \/ f = 0) => ~FsMustFail(FsAfter(t, prog, k - 1), prog[k])}

\* The operations of prog are awaited one after the other; operation failAt
\* rejects without effect and ends the run.
FsRun(prog, failAt) ==
  LET issued == IF failAt = 0 THEN Len(prog) ELSE failAt
      done == IF failAt = 0 THEN Len(prog) ELSE failAt - 1
  IN /\ fsLog' = fsLog \o [i \in 1..issued |->
                    [call |-> Len(calls) + 1, op |-> prog[i].op,
                     path |-> prog[i].path, data |-> prog[i].data,
                     ok |-> i <= done]]
     /\ tpl' = FsAfter(tpl, prog, done)

\* HexoService.createDotNoJekyllAndCNameFile after its assert: the second
\* helper sees the first one's file.
MarkerOps(t) ==
  LET first == CreateDotNoJekyllFile(t)
  IN first \o CreateCNameFile(FsAfter(t, first, Len(first)), site.domain)

\* The worker image's generator directory: no output yet.
ImageTemplate == [p \in TemplatePaths |-> Absent]

\* ------------------------------------------- the symlink destinations
\* Main config, theme config, space config and source directory of the
\* generator directory.
SourceDest == "source"

ConfigDests == {"_config.yml", "_config.theme.yml", "meta-space-config.yml"}

Dests == ConfigDests \cup {SourceDest}

File == "file"

\* A symlink ensureSymlink made to this task's workspace path, and one a
\* prior task left behind.
Symlink == "symlink"

PriorSymlink == "symlink of a prior task"

\* One destination: the progress of its createSymlink, the content found at
\* the destination when the step was called, the content at the destination
\* and at destination.bak.
Link(phase, was, dst, bak) == [phase |-> phase, was |-> was, dst |-> dst, bak |-> bak]

\* A generator directory no task has used, one that ships no space config,
\* and one a prior task has linked to its workspace.
FreshLinks ==
  [d \in Dests |-> Link("idle", Absent, IF d = SourceDest THEN Dir ELSE File, Absent)]

NoSpaceConfigLinks ==
  [FreshLinks EXCEPT !["meta-space-config.yml"] = Link("idle", Absent, Absent, Absent)]

PriorTaskLinks ==
  [d \in Dests |-> Link("idle", Absent, PriorSymlink,
                         IF d = SourceDest THEN Dir ELSE File)]

\* The generator directories a task is run on: the used and the incomplete
\* ones are tried with the publish task.
LinkTemplates(m) ==
  IF m = "PUBLISH_SITE" THEN {FreshLinks, NoSpaceConfigLinks, PriorTaskLinks}
  ELSE {FreshLinks}

\* fs.rename(old, new) cannot succeed: old is missing, a non-directory is
\* renamed onto a directory, or a directory onto something that is not an
\* empty directory.
RenameMustFail(old, new) ==
  \/ old = Absent
  \/ new = Dir /\ old # Dir
  \/ old = Dir /\ new # Absent

\* ------------------------------------------------------------- bootstrap
\* A call of bootstrap to the backend service, made when `at` orchestrator
\* methods had been invoked.
Http(call, ok) == [call |-> call, ok |-> ok, at |-> Len(calls)]

\* The backend calls bootstrap has made when startWorkerTask is called.
TaskFetched ==
  <<[call |-> "reportWorkerTaskStartedToBackend", ok |-> TRUE, at |-> 0],
    [call |-> "getWorkerTaskFromBackend", ok |-> TRUE, at |-> 0]>>

Init ==
  /\ taskMethod \in Methods
  /\ post \in (IF taskMethod \in PostTasks THEN PostInputs ELSE {NoPost})
  /\ remotePosts \in RemoteContents
  /\ pc = 0
  /\ outcome = "idle"
  /\ error = NoError
  /\ calls = <<>>
  /\ gitLog = <<>>
  /\ auth = [h \in Handles |-> FALSE]
  /\ remote = [h \in Handles |-> FALSE]
  /\ files = {}
  /\ build = "none"
  /\ fan = "idle"
  /\ pst = <<>>
  /\ reports = <<>>
  /\ jobs = <<>>
  /\ link \in LinkTemplates(taskMethod)
  /\ boot = "start"
  /\ backend = <<>>
  /\ site = [title |-> "T", domain |-> "a.io"]
  /\ layers = ImageLayers
  /\ hexoConfigFile = NoFile
  /\ merged = <<>>
  /\ confFiles = NoConfFiles
  /\ initLog = <<>>
  /\ metadata = "M"
  /\ tpl = ImageTemplate
  /\ fsLog = <<>>
  /\ serviceType \in GitInfos(taskMethod)

\* await http.reportWorkerTaskStartedToBackend()
ReportWorkerTaskStartedToBackend ==
  /\ boot = "start"
  /\ \E ok \in BOOLEAN :
       /\ backend' = Append(backend, Http("reportWorkerTaskStartedToBackend", ok))
       /\ boot' = IF ok THEN "started" ELSE "rejected"
  /\ UNCHANGED <<input, confFiles, initLog, jobs, link, pc, outcome, error,
                 calls, gitLog, auth,
                 remote,
                 files, build, fan, pst, reports, hexoConfigFile, merged,
                 tpl, fsLog>>

\* await http.getWorkerTaskFromBackend(), the assert on its result, the
\* start of the health check and the call of startWorkerTask(taskConf).
GetWorkerTaskFromBackend ==
  /\ boot = "started"
  /\ \E res \in {"task", "empty", "rejects"} :
       /\ backend' = Append(backend,
                       Http("getWorkerTaskFromBackend", res # "rejects"))
       /\ boot' = IF res = "task" THEN "task" ELSE "rejected"
       /\ outcome' = IF res = "task" THEN "running" ELSE outcome
  /\ UNCHANGED <<input, confFiles, initLog, jobs, link, pc, error, calls,
                 gitLog, auth, remote,
                 files,
                 build, fan, pst, reports, hexoConfigFile, merged, tpl,
                 fsLog>>

\* bootstrap reporting the task finished however startWorkerTask settled.
ReportFinishedAfterAnySettle ==
  /\ boot = "task" /\ outcome \in {"resolved", "rejected"}
  /\ \E ok \in BOOLEAN :
       /\ backend' = Append(backend, Http("reportWorkerTaskFinishedToBackend", ok))
       /\ boot' = IF ok THEN "finished" ELSE "rejected"
  /\ UNCHANGED <<input, confFiles, initLog, jobs, link, pc, outcome, error,
                 calls, gitLog, auth,
                 remote,
                 files, build, fan, pst, reports, hexoConfigFile, merged,
                 tpl, fsLog>>

\* startWorkerTask resolved: await http.reportWorkerTaskFinishedToBackend()
ReportWorkerTaskFinishedToBackend ==
  /\ boot = "task" /\ outcome = "resolved"
  /\ \E ok \in BOOLEAN :
       /\ backend' = Append(backend, Http("reportWorkerTaskFinishedToBackend", ok))
       /\ boot' = IF ok THEN "finished" ELSE "rejected"
  /\ UNCHANGED <<input, confFiles, initLog, jobs, link, pc, outcome, error,
                 calls, gitLog, auth,
                 remote,
                 files, build, fan, pst, reports, hexoConfigFile, merged,
                 tpl, fsLog>>

\* startWorkerTask rejected: the await in bootstrap throws, nothing catches
\* it and the promise of bootstrap() rejects unhandled.
BootstrapRejects ==
  /\ boot = "task" /\ outcome = "rejected"
  /\ boot' = "rejected"
  /\ UNCHANGED <<input, confFiles, initLog, jobs, link, backend, pc, outcome,
                 error, calls, gitLog,
                 auth,
                 remote, files, build, fan, pst, reports, hexoConfigFile,
                 merged, tpl, fsLog>>

\* checkAllowedTasks(taskMethod, allowedTasks)
CheckAllowedTasks ==
  /\ outcome = "running" /\ pc = 0
  /\ IF taskMethod \in AllowedTasks
       THEN /\ pc' = 1
            /\ outcome' = IF Len(Pipeline(taskMethod)) = 0 THEN "resolved" ELSE "running"
            /\ error' = error
       ELSE Reject("checkAllowedTasks", "")
  /\ UNCHANGED <<input, confFiles, initLog, jobs, link, boot, backend, fsLog,
                 tpl, merged,
                 hexoConfigFile,
                 calls, gitLog,
                 auth, remote,
                 files, build, fan, pst, reports>>

\* ------------------------------------------------------- the Git service
\* One command handed to the Git command helper or the auth helper.
\* A call of the Git command helper or the auth helper; branch is the
\* branch name git.init is given, "" for git.init() and the other calls.
Cmd(c) == [cmd |-> c, force |-> FALSE, branch |-> ""]

Push(force) == [cmd |-> "push", force |-> force, branch |-> ""]

\* GitService.initializeRepository with git.init() given no branch.
InitializeRepositoryCmdsNoBranch(h) == <<Cmd("init")>>

\* GitService.initializeRepository: git.init(branchname), the branch named
\* by the handle whose descriptor holds it.
InitializeRepositoryCmds(h) ==
  <<[cmd |-> "init", force |-> FALSE, branch |-> h]>>

\* The descriptor a repository handle is used with: storageGitInfo for the
\* workspace, publisher for the output directory.
GitInfo(h) == IF h = "storage" THEN serviceType.storage ELSE serviceType.publisher

\* setRepositoryRemote adding origin without removing a previous one.
SetRepositoryRemoteCmdsKeepsOrigin(hasOrigin) ==
  <<Cmd("remoteShow"), Cmd("getRemoteUrl"), Cmd("remoteAdd")>>

\* GitService.setRepositoryRemote: look the remotes up, remove a previous
\* origin, compute the remote url, add origin.
SetRepositoryRemoteCmds(hasOrigin) ==
  <<Cmd("remoteShow")>> \o
  (IF hasOrigin THEN <<Cmd("remoteRemove")>> ELSE <<>>) \o
  <<Cmd("getRemoteUrl"), Cmd("remoteAdd")>>

\* GitService.fetchRepository configuring the credentials before it
\* initializes the repository and sets the remote.
FetchRepositoryCmdsAuthFirst(hasOrigin) ==
  <<Cmd("configureAuth"), Cmd("init")>> \o SetRepositoryRemoteCmds(hasOrigin) \o
  <<Cmd("fetch"), Cmd("removeAuth")>>

\* GitService.fetchRepository
FetchRepositoryCmds(hasOrigin) ==
  <<Cmd("init")>> \o SetRepositoryRemoteCmds(hasOrigin) \o
  <<Cmd("configureAuth"), Cmd("fetch"), Cmd("removeAuth")>>

\* GitService.pushRepository pushing with force whatever it is given.
PushRepositoryCmdsAlwaysForce(hasOrigin, force) ==
  SetRepositoryRemoteCmds(hasOrigin) \o
  <<Cmd("configureAuth"), Push(TRUE), Cmd("removeAuth")>>

\* GitService.pushRepository
PushRepositoryCmds(hasOrigin, force) ==
  SetRepositoryRemoteCmds(hasOrigin) \o
  <<Cmd("configureAuth"), Push(force), Cmd("removeAuth")>>

\* GitService.fetchRemoteStorageRepository: fetchRepository, checkoutBranch
FetchRemoteStorageRepositoryCmds(hasOrigin) ==
  FetchRepositoryCmds(hasOrigin) \o <<Cmd("checkout")>>

\* GitService.commitStorageRepositoryAllChanges: addAllChanges, commitWithMessage
CommitAllChangesCmds == <<Cmd("addAll"), Cmd("commit")>>

\* GitService.publishSiteToGitHubPages, after its assert
PublishSiteCmds(hasOrigin) ==
  InitializeRepositoryCmds("pages") \o CommitAllChangesCmds \o
  PushRepositoryCmds(hasOrigin, TRUE)

\* The auth helper: configureAuth sets the credentials on the handle's
\* repository, removeAuth unsets them.
RECURSIVE AuthAfter(_, _, _)
AuthAfter(a, prog, k) ==
  IF k = 0 THEN a
  ELSE CASE prog[k].cmd = "configureAuth" -> TRUE
         [] prog[k].cmd = "removeAuth" -> FALSE
         [] OTHER -> AuthAfter(a, prog, k - 1)

RECURSIVE RemoteAfter(_, _, _)
RemoteAfter(r, prog, k) ==
  IF k = 0 THEN r
  ELSE CASE prog[k].cmd = "remoteAdd" -> TRUE
         [] prog[k].cmd = "remoteRemove" -> FALSE
         [] OTHER -> RemoteAfter(r, prog, k - 1)

\* GitService.getRemoteUrl throws for a service type that is neither GITHUB
\* nor GITEE and cannot fail otherwise; every helper command may reject.
\* The positions at which prog can fail on handle h, 0 for no failure.
GitFailPoints(h, prog) ==
  LET urls == {i \in 1..Len(prog) : prog[i].cmd = "getRemoteUrl"}
  IN IF urls # {} /\ GitInfo(h) \notin SupportedTypes
       THEN {i \in 1..Len(prog) : \A u \in urls : i <= u}
       ELSE (0..Len(prog)) \ urls

\* The commands of prog are awaited one after the other on handle h.  With
\* failAt = 0 all of them resolve; otherwise command failAt rejects, has no
\* effect, and the commands after it are never issued.
GitRun(h, hadOrigin, prog, failAt) ==
  LET issued == IF failAt = 0 THEN Len(prog) ELSE failAt
      done == IF failAt = 0 THEN Len(prog) ELSE failAt - 1
  IN /\ gitLog' = gitLog \o [i \in 1..issued |->
                      [h |-> h, cmd |-> prog[i].cmd, force |-> prog[i].force,
                       branch |-> prog[i].branch, ok |-> i <= done]]
     /\ auth' = [auth EXCEPT ![h] = AuthAfter(auth[h], prog, done)]
     /\ remote' = [remote EXCEPT ![h] = RemoteAfter(hadOrigin, prog, done)]

\* The step's Git commands ran: resolve or reject the awaited call.
GitOutcome(op, prog, failAt) ==
  IF failAt = 0 THEN Advance ELSE Reject(op, prog[failAt].cmd)

\* removeIfPathExists leaving the files of the directory in place.
RemoveIfPathExistsKeeps(fs) == fs

\* GitService.removeIfPathExists(workspaceDirectory), resolved: the files
\* left in the directory.
RemoveIfPathExists(fs) == {}

\* GitService.initialize, the awaited calls in order.
GitInitializeSteps == <<"removeIfPathExists", "mkdir", "createCommandHelper">>

\* gitServiceFactory(taskConf): createGitService removes the workspace
\* directory with the repository in it, recreates it and creates the
\* storage command helper; it rejects with the call that failed, and a
\* failed removal leaves the directory as it was.
GitServiceFactory ==
  /\ At("gitServiceFactory")
  /\ Invoke("gitServiceFactory")
  /\ \E failAt \in 0..Len(GitInitializeSteps) :
       /\ IF failAt = 0 THEN Advance
          ELSE Reject("gitServiceFactory", GitInitializeSteps[failAt])
       /\ IF failAt = 1
            THEN UNCHANGED <<files, hexoConfigFile, confFiles, auth, remote>>
            ELSE /\ files' = RemoveIfPathExists(files)
                 /\ hexoConfigFile' = NoFile
                 /\ confFiles' = NoConfFiles
                 /\ auth' = [auth EXCEPT !["storage"] = FALSE]
                 /\ remote' = [remote EXCEPT !["storage"] = FALSE]
  /\ UNCHANGED <<input, initLog, jobs, link, boot, backend, fsLog, tpl, merged,
                 gitLog, build, fan, pst, reports>>

CreateStorageRepository ==
  /\ At("createStorageRepository")
  /\ Invoke("createStorageRepository")
  /\ LET prog == InitializeRepositoryCmds("storage")
     IN \E failAt \in GitFailPoints("storage", prog) :
          /\ GitRun("storage", remote["storage"], prog, failAt)
          /\ GitOutcome("createStorageRepository", prog, failAt)
  /\ UNCHANGED <<input, confFiles, initLog, jobs, link, boot, backend, fsLog,
                 tpl, merged,
                 hexoConfigFile,
                 files, build, fan,
                 pst,
                 reports>>

FetchRemoteStorageRepository ==
  LET prog == FetchRemoteStorageRepositoryCmds(remote["storage"])
  IN /\ At("fetchRemoteStorageRepository")
     /\ Invoke("fetchRemoteStorageRepository")
     /\ \E failAt \in GitFailPoints("storage", prog) :
          /\ GitRun("storage", remote["storage"], prog, failAt)
          /\ GitOutcome("fetchRemoteStorageRepository", prog, failAt)
          /\ files' = IF failAt = 0 THEN remotePosts ELSE files
          /\ hexoConfigFile' = IF failAt = 0 THEN RemoteConfigFile
                             ELSE hexoConfigFile
          /\ confFiles' = IF failAt = 0 THEN RemoteConfFiles ELSE confFiles
     /\ UNCHANGED <<input, initLog, jobs, link, boot, backend, fsLog, tpl,
                    merged,
                    build, fan,
                    pst,
                    reports>>

CommitStorageRepositoryAllChanges ==
  /\ At("commitStorageRepositoryAllChanges")
  /\ calls' = Append(calls, Current)
  /\ \E failAt \in GitFailPoints("storage", CommitAllChangesCmds) :
       /\ GitRun("storage", remote["storage"], CommitAllChangesCmds, failAt)
       /\ GitOutcome("commitStorageRepositoryAllChanges", CommitAllChangesCmds, failAt)
  /\ UNCHANGED <<input, confFiles, initLog, jobs, link, boot, backend, fsLog,
                 tpl, merged,
                 hexoConfigFile,
                 files, build, fan,
                 pst,
                 reports>>

PushStorageRepositoryToRemote ==
  LET prog == PushRepositoryCmds(remote["storage"], FALSE)
  IN /\ At("pushStorageRepositoryToRemote")
     /\ Invoke("pushStorageRepositoryToRemote")
     /\ \E failAt \in GitFailPoints("storage", prog) :
          /\ GitRun("storage", remote["storage"], prog, failAt)
          /\ GitOutcome("pushStorageRepositoryToRemote", prog, failAt)
     /\ UNCHANGED <<input, confFiles, initLog, jobs, link, boot, backend,
                    fsLog, tpl, merged,
                    hexoConfigFile,
                    files, build,
                    fan, pst,
                    reports>>

\* The output directory is the generator's: whether it already holds a
\* repository with an origin is the environment's choice.
PublishSiteToGitHubPages ==
  /\ At("publishSiteToGitHubPages")
  /\ Invoke("publishSiteToGitHubPages")
  /\ IF taskMethod = "PUBLISH_SITE"
       THEN \E hadOrigin \in BOOLEAN :
              LET prog == PublishSiteCmds(hadOrigin)
              IN \E failAt \in GitFailPoints("pages", prog) :
                   /\ GitRun("pages", hadOrigin, prog, failAt)
                   /\ GitOutcome("publishSiteToGitHubPages", prog, failAt)
       ELSE /\ Reject("publishSiteToGitHubPages", "assert")
            /\ UNCHANGED <<gitLog, auth, remote>>
  /\ UNCHANGED <<input, confFiles, initLog, jobs, link, boot, backend, fsLog,
                 tpl, merged,
                 hexoConfigFile,
                 files, build, fan,
                 pst,
                 reports>>

\* ------------------------------------------------------ the Hexo service
\* Post files the template's source directory ships.
TemplatePosts == {"hello-world"}

\* hexoServiceFactory(taskConf): createHexoService writes the merged
\* configs and starts the generator command helper.
HexoServiceFactory ==
  /\ At("hexoServiceFactory")
  /\ Invoke("hexoServiceFactory")
  /\ \E failAt \in InitFailPoints :
       /\ Initialize(failAt)
       /\ IF failAt = 0 THEN Advance
          ELSE Reject("hexoServiceFactory", InitReason(failAt))
  /\ UNCHANGED <<input, jobs, link, boot, backend, fsLog, tpl, gitLog, auth,
                 remote,
                 files,
                 build, fan,
                 pst, reports>>

CreateWorkspaceSourceDirectory ==
  /\ At("createWorkspaceSourceDirectory")
  /\ Invoke("createWorkspaceSourceDirectory")
  /\ IF taskMethod = "DEPLOY_SITE"
       THEN \E ok \in BOOLEAN :
              IF ok THEN Advance /\ files' = files \cup TemplatePosts
              ELSE Reject("createWorkspaceSourceDirectory", "copy") /\ files' = files
       ELSE Reject("createWorkspaceSourceDirectory", "assert") /\ files' = files
  /\ UNCHANGED <<input, confFiles, initLog, jobs, link, boot, backend, fsLog,
                 tpl, merged,
                 hexoConfigFile,
                 gitLog, auth,
                 remote, build,
                 fan, pst, reports>>

\* The dispatcher is inside symlinkWorkspaceDirectoryAndFiles.
InSymlinkStep ==
  /\ At("symlinkWorkspaceDirectoryAndFiles")
  /\ \E d \in Dests : link[d].phase # "idle"

\* symlinkWorkspaceDirectoryAndFiles up to its first await: the three
\* createSymlink calls of symlinkWorkspaceConfigFiles are made in a row, each
\* up to its await of fs.rename, and joined with Promise.all.
SymlinkWorkspaceDirectoryAndFiles ==
  /\ At("symlinkWorkspaceDirectoryAndFiles")
  /\ \A d \in Dests : link[d].phase = "idle"
  /\ Invoke("symlinkWorkspaceDirectoryAndFiles")
  /\ link' = [d \in Dests |->
               Link(IF d \in ConfigDests THEN "pending" ELSE "idle",
                    link[d].dst, link[d].dst, link[d].bak)]
  /\ UNCHANGED <<input, confFiles, initLog, jobs, boot, backend, fsLog, tpl,
                 merged, hexoConfigFile,
                 pc, outcome, error, gitLog, auth, remote, files, build, fan,
                 pst, reports>>

\* createSymlink: exists(destinationPath) is a promise and so truthy, the
\* rename of the destination to destination.bak is always made.  It rejects
\* for a missing destination and where fs.rename cannot succeed.
Rename(d) ==
  /\ InSymlinkStep
  /\ link[d].phase = "pending"
  /\ link' = [link EXCEPT ![d] =
                IF RenameMustFail(@.dst, @.bak)
                  THEN Link("failed", @.was, @.dst, @.bak)
                  ELSE Link("renamed", @.was, Absent, @.dst)]
  /\ UNCHANGED <<input, confFiles, initLog, jobs, boot, backend, fsLog, tpl,
                 merged, hexoConfigFile,
                 pc, outcome, error, calls, gitLog, auth, remote, files,
                 build, fan, pst, reports>>

\* createSymlink after its rename: ensureSymlink(source, destination).  It
\* rejects for a missing source: the config files were written by the Site
\* service, the workspace's source directory is the storage branch's.
EnsureSymlink(d) ==
  /\ InSymlinkStep
  /\ link[d].phase = "renamed"
  /\ \E ok \in (IF d = SourceDest THEN BOOLEAN ELSE {TRUE}) :
       link' = [link EXCEPT ![d] =
                  IF ok THEN Link("linked", @.was, Symlink, @.bak)
                  ELSE Link("failed", @.was, @.dst, @.bak)]
  /\ UNCHANGED <<input, confFiles, initLog, jobs, boot, backend, fsLog, tpl,
                 merged, hexoConfigFile,
                 pc, outcome, error, calls, gitLog, auth, remote, files,
                 build, fan, pst, reports>>

\* Promise.all resolved: symlinkWorkspaceSourceDirectory calls createSymlink
\* for the source directory.
SymlinkWorkspaceSourceDirectory ==
  /\ InSymlinkStep
  /\ \A d \in ConfigDests : link[d].phase = "linked"
  /\ link[SourceDest].phase = "idle"
  /\ link' = [link EXCEPT ![SourceDest] = Link("pending", @.was, @.dst, @.bak)]
  /\ UNCHANGED <<input, confFiles, initLog, jobs, boot, backend, fsLog, tpl,
                 merged, hexoConfigFile,
                 pc, outcome, error, calls, gitLog, auth, remote, files,
                 build, fan, pst, reports>>

\* A createSymlink rejected: Promise.all, or the await of the source
\* directory's createSymlink, rejects and the step with it.  The other
\* createSymlink calls are left where they are.
SymlinkRejects ==
  /\ InSymlinkStep
  /\ \E d \in Dests : link[d].phase = "failed"
  /\ Reject("symlinkWorkspaceDirectoryAndFiles", "createSymlink")
  /\ UNCHANGED <<input, confFiles, initLog, jobs, boot, backend, link, fsLog,
                 tpl, merged,
                 hexoConfigFile, calls, gitLog, auth, remote, files, build,
                 fan, pst, reports>>

\* The source directory is linked: the step resolves.
SymlinkResolves ==
  /\ InSymlinkStep
  /\ \A d \in Dests : link[d].phase = "linked"
  /\ Advance
  /\ UNCHANGED <<input, confFiles, initLog, jobs, boot, backend, link, fsLog,
                 tpl, merged,
                 hexoConfigFile, calls, gitLog, auth, remote, files, build,
                 fan, pst, reports>>

\* The promise jobs queued by generateHexoStaticFiles with the dispatcher's
\* continuation ahead of generate's.
GenerateJobsDispatcherFirst == <<"startWorkerTask", "generate">>

\* generate() awaits the settled promise of execHexo('yarn run hexo clean')
\* before generateHexoStaticFiles returns to the await of the dispatcher:
\* generate's continuation is queued first.
GenerateJobs == <<"generate", "startWorkerTask">>

\* generateHexoStaticFiles(): this.hexo.generate() is called and not
\* awaited.  execHexo runs the command with execa.commandSync: the clean has
\* run when generate() reaches its first await and the call returns.
GenerateHexoStaticFiles ==
  /\ At("generateHexoStaticFiles")
  /\ build = "none"
  /\ Invoke("generateHexoStaticFiles")
  /\ IF taskMethod = "PUBLISH_SITE"
       THEN /\ \E ok \in BOOLEAN :
                 /\ build' = IF ok THEN "cleaned" ELSE "clean failed"
                 /\ tpl' = IF ok THEN [p \in TemplatePaths |-> Absent] ELSE tpl
            /\ jobs' = GenerateJobs
            /\ UNCHANGED <<pc, outcome, error>>
       ELSE /\ Reject("generateHexoStaticFiles", "assert")
            /\ UNCHANGED <<build, tpl, jobs>>
  /\ UNCHANGED <<input, confFiles, initLog, link, boot, backend, fsLog, merged,
                 hexoConfigFile,
                 gitLog, auth, remote, files, fan, pst, reports>>

\* The first queued job is generate's continuation.  After the clean it
\* runs the build with execa.commandSync and awaits its settled promise;
\* after the build it settles generate(): a failed clean or build rejects
\* the promise nothing awaits.
GenerateContinues ==
  /\ jobs # <<>> /\ Head(jobs) = "generate"
  /\ CASE build = "cleaned" ->
            \E ok \in BOOLEAN :
              /\ build' = IF ok THEN "built" ELSE "build failed"
              /\ tpl' = IF ok THEN [tpl EXCEPT ![PublicDir] = Dir] ELSE tpl
              /\ jobs' = Append(Tail(jobs), "generate")
       [] build = "built" ->
            build' = "done" /\ jobs' = Tail(jobs) /\ tpl' = tpl
       [] OTHER ->
            build' = "rejected" /\ jobs' = Tail(jobs) /\ tpl' = tpl
  /\ UNCHANGED <<input, confFiles, initLog, link, boot, backend, fsLog, merged,
                 hexoConfigFile,
                 pc, outcome, error, calls, gitLog, auth, remote, files, fan,
                 pst, reports>>

\* The first queued job is the dispatcher's continuation after its await
\* of generateHexoStaticFiles().
DispatcherContinues ==
  /\ jobs # <<>> /\ Head(jobs) = "startWorkerTask"
  /\ jobs' = Tail(jobs)
  /\ Advance
  /\ UNCHANGED <<input, confFiles, initLog, link, boot, backend, fsLog, tpl,
                 merged,
                 hexoConfigFile, calls, gitLog, auth, remote, files, build,
                 fan, pst, reports>>

\* The queue has drained with generate()'s rejection unhandled.  What the
\* process does depends on its --unhandled-rejections mode: it ends with
\* the rejection as an uncaught exception (the default of the image's
\* Node.js), or warns and goes on.
UnhandledRejection ==
  /\ jobs = <<>> /\ build = "rejected" /\ boot = "task"
  /\ \E mode \in {"throw", "warn"} :
       IF mode = "throw" THEN boot' = "crashed" /\ build' = build
       ELSE boot' = boot /\ build' = "warned"
  /\ UNCHANGED <<input, confFiles, initLog, link, backend, jobs, fsLog, tpl,
                 merged,
                 hexoConfigFile, pc, outcome, error, calls, gitLog, auth,
                 remote, files, fan, pst, reports>>

CreateDotNoJekyllAndCNameFile ==
  /\ At("createDotNoJekyllAndCNameFile")
  /\ Invoke("createDotNoJekyllAndCNameFile")
  /\ IF taskMethod = "PUBLISH_SITE"
       THEN LET prog == MarkerOps(tpl)
            IN \E failAt \in FsFailPoints(tpl, prog) :
                 /\ FsRun(prog, failAt)
                 /\ IF failAt = 0 THEN Advance
                    ELSE Reject("createDotNoJekyllAndCNameFile", prog[failAt].op)
       ELSE /\ Reject("createDotNoJekyllAndCNameFile", "assert")
            /\ UNCHANGED <<tpl, fsLog>>
  /\ UNCHANGED <<input, confFiles, initLog, jobs, link, boot, backend, merged,
                 hexoConfigFile,
                 gitLog,
                 auth,
                 remote, files,
                 build, fan, pst, reports>>

\* ---------------------------------------------------- the post fan-out
\* A call to the generator command helper.
GenCall(cmd, title, replace) == [cmd |-> cmd, title |-> title, replace |-> replace]

NoReason == GenCall("", "", FALSE)

\* HexoService.processMetaSpaceInternalProperties
ProcessMetaSpaceInternalProperties(p) ==
  IF p.newTitle = Undefined THEN p
  ELSE [title |-> p.newTitle, newTitle |-> Undefined]

\* The processer of createHexoPostFiles creating under the new title before
\* it removes the old file.
CreateProcesserRemoveLast(p, update) ==
  <<GenCall("create", ProcessMetaSpaceInternalProperties(p).title, update)>> \o
  (IF Truthy(p.newTitle) THEN <<GenCall("remove", p.title, FALSE)>> ELSE <<>>)

\* The processer createHexoPostFiles hands to processHexoPostFile.
CreateProcesser(p, update) ==
  (IF Truthy(p.newTitle) THEN <<GenCall("remove", p.title, FALSE)>> ELSE <<>>) \o
  <<GenCall("create", ProcessMetaSpaceInternalProperties(p).title, update)>>

\* The processer deleteHexoPostFiles hands to processHexoPostFile.
DeleteProcesser(p) == <<GenCall("remove", p.title, FALSE)>>

\* The generator calls the running post step makes for post p, in order.
Processer(p) ==
  IF Current.op = "deleteHexoPostFiles" THEN DeleteProcesser(p)
  ELSE CreateProcesser(p, Current.update)

Suffixed(path, n) == IF n = 0 THEN path ELSE path \o "-" \o ToString(n)

\* Hexo's new_post_path filter without replace: the first free name among
\* path, path-1, path-2, ...
EnsurePath(fs, path) ==
  Suffixed(path, CHOOSE n \in 0..Cardinality(fs) :
                   /\ Suffixed(path, n) \notin fs
                   /\ \A m \in 0..(n - 1) : Suffixed(path, m) \in fs)

\* The path a generator call acts on, given the files present.
GenPath(fs, c) ==
  IF c.cmd = "create" /\ ~c.replace THEN EnsurePath(fs, PostPath(c.title))
  ELSE PostPath(c.title)

\* The generator calls with a remove that leaves the file in place.
GenApplyRemoveKeeps(fs, c) ==
  IF c.cmd = "create" THEN fs \cup {GenPath(fs, c)} ELSE fs

\* HexoCommandHelper.create writes the post's file, remove deletes it
\* (fs.rm with force: a missing file is no error).
GenApply(fs, c) ==
  IF c.cmd = "create" THEN fs \cup {GenPath(fs, c)} ELSE fs \ {GenPath(fs, c)}

PostArr == MakeArray(post)

Pending(i) == pst[i].status = "pending"

\* Promise.all: the join ends with the first rejection.
AllOrFirstRejected(st) ==
  \/ \A i \in 1..Len(st) : st[i].status = "fulfilled"
  \/ \E i \in 1..Len(st) : st[i].status = "rejected"

\* Promise.allSettled: the join waits for every processer to settle.
AllSettled(st) == \A i \in 1..Len(st) : st[i].status # "pending"

\* The posts whose processer rejected, in batch order.
RECURSIVE RejectedUpTo(_, _)
RejectedUpTo(st, n) ==
  IF n = 0 THEN <<>>
  ELSE IF st[n].status = "rejected" THEN Append(RejectedUpTo(st, n - 1), n)
       ELSE RejectedUpTo(st, n - 1)

\* The posts whose processer rejected, the last of the batch first.
RejectedLastFirst(st) ==
  LET r == RejectedUpTo(st, Len(st))
  IN [k \in 1..Len(r) |-> r[Len(r) + 1 - k]]

Rejected(st) == RejectedUpTo(st, Len(st))

\* The MetaInternalResult reported for the post at index i.
Report(i) == [title |-> PostArr[i].title, reason |-> pst[i].reason,
              statusCode |-> 500, retryable |-> FALSE]

\* post.map(async ...): every processer is started.
StartFanOut ==
  /\ fan' = "running"
  /\ pst' = [i \in 1..Len(PostArr) |->
               [status |-> "pending", log |-> <<>>, reason |-> NoReason]]
  /\ UNCHANGED <<pc, outcome, error>>

\* createHexoPostFiles(update), up to its await of the fan-out.
CreateHexoPostFiles ==
  /\ At("createHexoPostFiles") /\ fan = "idle"
  /\ calls' = Append(calls, Current)
  /\ IF taskMethod \in PostTasks
       THEN StartFanOut
       ELSE Reject("createHexoPostFiles", "assert") /\ UNCHANGED <<fan, pst>>
  /\ UNCHANGED <<input, confFiles, initLog, jobs, link, boot, backend, fsLog,
                 tpl, merged,
                 hexoConfigFile,
                 gitLog, auth,
                 remote, files,
                 build, reports>>

\* deleteHexoPostFiles(), up to its await of the fan-out.
DeleteHexoPostFiles ==
  /\ At("deleteHexoPostFiles") /\ fan = "idle"
  /\ Invoke("deleteHexoPostFiles")
  /\ IF taskMethod \in PostTasks
       THEN StartFanOut
       ELSE Reject("deleteHexoPostFiles", "assert") /\ UNCHANGED <<fan, pst>>
  /\ UNCHANGED <<input, confFiles, initLog, jobs, link, boot, backend, fsLog,
                 tpl, merged,
                 hexoConfigFile,
                 gitLog, auth,
                 remote, files,
                 build, reports>>

\* The next generator call of post i's processer resolves.
PostCallResolves(i) ==
  /\ outcome = "running" /\ fan = "running" /\ Pending(i)
  /\ LET prog == Processer(PostArr[i])
         c == prog[Len(pst[i].log) + 1]
         entry == [cmd |-> c.cmd, title |-> c.title, replace |-> c.replace,
                   path |-> GenPath(files, c)]
     IN /\ files' = GenApply(files, c)
        /\ pst' = [pst EXCEPT ![i] =
                     [status |-> IF Len(@.log) + 1 = Len(prog)
                                 THEN "fulfilled" ELSE "pending",
                      log |-> Append(@.log, entry),
                      reason |-> @.reason]]
  /\ UNCHANGED <<input, confFiles, initLog, jobs, link, boot, backend, fsLog,
                 tpl, merged,
                 hexoConfigFile, pc,
                 outcome, error,
                 calls,
                 gitLog, auth, remote, build,
                 fan, reports>>

\* The next generator call of post i's processer rejects: the processer
\* rejects with it and makes no further call.
PostCallRejects(i) ==
  /\ outcome = "running" /\ fan = "running" /\ Pending(i)
  /\ LET prog == Processer(PostArr[i])
         c == prog[Len(pst[i].log) + 1]
     IN pst' = [pst EXCEPT ![i] =
                  [status |-> "rejected", log |-> @.log, reason |-> c]]
  /\ UNCHANGED <<input, confFiles, initLog, jobs, link, boot, backend, fsLog,
                 tpl, merged,
                 hexoConfigFile, pc,
                 outcome, error,
                 calls,
                 gitLog, auth, remote, files,
                 build, fan, reports>>

\* processHexoPostFile's join, then processPostTaskResults with every
\* report delivered: the post step resolves.
ReportsDelivered ==
  /\ outcome = "running" /\ fan = "running" /\ AllSettled(pst)
  /\ LET rej == Rejected(pst)
     IN reports' = reports \o [k \in 1..Len(rej) |-> Report(rej[k])]
  /\ fan' = "joined"
  /\ Advance
  /\ UNCHANGED <<input, confFiles, initLog, jobs, link, boot, backend, fsLog,
                 tpl, merged,
                 hexoConfigFile,
                 calls, gitLog,
                 auth, remote,
                 files, build, pst>>

\* processPostTaskResults going on with the reports of the later rejected
\* posts after one report rejected.
ReportRejectsSendsRest ==
  /\ outcome = "running" /\ fan = "running" /\ AllSettled(pst)
  /\ LET rej == Rejected(pst)
     IN \E k \in 1..Len(rej) :
          reports' = reports \o
            [j \in 1..(Len(rej) - 1) |->
               Report(rej[IF j < k THEN j ELSE j + 1])]
  /\ fan' = "joined"
  /\ Reject(Current.op, "reportWorkerTaskErroredToBackend")
  /\ UNCHANGED <<input, confFiles, initLog, jobs, link, boot, backend, fsLog,
                 tpl, merged,
                 hexoConfigFile,
                 calls, gitLog,
                 auth, remote,
                 files, build, pst>>

\* processHexoPostFile's join, then processPostTaskResults in which the
\* report of the k-th rejected post rejects: the loop ends there and the
\* post step rejects.
ReportRejects ==
  /\ outcome = "running" /\ fan = "running" /\ AllSettled(pst)
  /\ LET rej == Rejected(pst)
     IN \E k \in 1..Len(rej) :
          reports' = reports \o [j \in 1..(k - 1) |-> Report(rej[j])]
  /\ fan' = "joined"
  /\ Reject(Current.op, "reportWorkerTaskErroredToBackend")
  /\ UNCHANGED <<input, confFiles, initLog, jobs, link, boot, backend, fsLog,
                 tpl, merged,
                 hexoConfigFile,
                 calls, gitLog,
                 auth, remote,
                 files, build, pst>>

Next ==
  \/ ReportWorkerTaskStartedToBackend
  \/ GetWorkerTaskFromBackend
  \/ ReportWorkerTaskFinishedToBackend
  \/ BootstrapRejects
  \/ CheckAllowedTasks
  \/ GitServiceFactory
  \/ CreateStorageRepository
  \/ FetchRemoteStorageRepository
  \/ CommitStorageRepositoryAllChanges
  \/ PushStorageRepositoryToRemote
  \/ PublishSiteToGitHubPages
  \/ HexoServiceFactory
  \/ CreateWorkspaceSourceDirectory
  \/ SymlinkWorkspaceDirectoryAndFiles
  \/ \E d \in Dests : Rename(d)
  \/ \E d \in Dests : EnsureSymlink(d)
  \/ SymlinkWorkspaceSourceDirectory
  \/ SymlinkRejects
  \/ SymlinkResolves
  \/ GenerateHexoStaticFiles
  \/ GenerateContinues
  \/ DispatcherContinues
  \/ UnhandledRejection
  \/ CreateDotNoJekyllAndCNameFile
  \/ CreateHexoPostFiles
  \/ DeleteHexoPostFiles
  \/ \E i \in 1..Len(pst) : PostCallResolves(i)
  \/ \E i \in 1..Len(pst) : PostCallRejects(i)
  \/ ReportsDelivered
  \/ ReportRejects

Spec == Init /\ [][Next]_vars

\* ------------------------------------------------------- the event loop
\* bootstrap on one batch of two posts and one remote content.
TerminationInit ==
  /\ Init
  /\ post \in {NoPost, [isArray |-> TRUE,
                        data |-> <<[title |-> "A", newTitle |-> "B"],
                                   [title |-> "B", newTitle |-> Undefined]>>]}
  /\ remotePosts = {PostPath("A")}

\* The event loop runs a continuation that is ready, and every call of a
\* collaborator settles: a step that can be taken is taken.
TerminationSpec == TerminationInit /\ [][Next]_vars /\ WF_vars(Next)

\* ------------------------------------------------- the health check job
\* The ticks of the health check so far.
HealthBeats ==
  Cardinality({i \in 1..Len(backend) :
                 backend[i].call = "reportWorkerTaskHealthStatusToBackend"})

\* One tick of the healthCheck CronJob, started before startWorkerTask is
\* called and never stopped.  The tick is an async function nothing awaits:
\* when its report rejects the rejection is unhandled, and the process ends
\* with it (the default of the image's Node.js) or warns and goes on.
HealthCheck ==
  /\ boot = "task"
  /\ HealthBeats < MaxBeats
  /\ \E ok \in BOOLEAN, mode \in {"throw", "warn"} :
       /\ backend' = Append(backend,
                            Http("reportWorkerTaskHealthStatusToBackend", ok))
       /\ boot' = IF ~ok /\ mode = "throw" THEN "crashed" ELSE boot
  /\ UNCHANGED <<input, confFiles, initLog, jobs, link, pc, outcome, error,
                 calls, gitLog, auth, remote, files, build, fan, pst, reports,
                 hexoConfigFile, merged, tpl, fsLog>>

\* bootstrap with the health check: one post, one remote content.
HeartbeatInit ==
  /\ Init
  /\ post \in {NoPost, [isArray |-> FALSE,
                        data |-> <<[title |-> "A", newTitle |-> "B"]>>]}
  /\ remotePosts = {PostPath("A")}

\* The steps of the process while it lives, and the ticks of the health
\* check between them.
HeartbeatNext ==
  \/ boot # "crashed" /\ Next
  \/ HealthCheck

HeartbeatSpec == HeartbeatInit /\ [][HeartbeatNext]_vars


\* ------------------------------------------- the marker files on their own
MaxMarkerCalls == 2

\* An output directory that is missing or there, with or without markers.
MarkerTemplates ==
  {t \in [TemplatePaths -> {Absent, Dir, "\n", "a.io\n", "b.io\n"}] :
     /\ t[PublicDir] \in {Absent, Dir}
     /\ t[NoJekyllPath] \in {Absent, "\n"}
     /\ t[CNamePath] \in {Absent, "a.io\n", "b.io\n"}
     /\ t[PublicDir] = Absent => t[NoJekyllPath] = Absent /\ t[CNamePath] = Absent}

\* A Site service of a site task, with or without a domain, on any output
\* directory; the dispatcher is not run.
MarkerInit ==
  /\ taskMethod \in SiteTasks
  /\ post = NoPost
  /\ remotePosts = {}
  /\ pc = 0
  /\ outcome = "running"
  /\ error = NoError
  /\ calls = <<>>
  /\ gitLog = <<>>
  /\ auth = [h \in Handles |-> FALSE]
  /\ remote = [h \in Handles |-> FALSE]
  /\ files = {}
  /\ build = "none"
  /\ fan = "idle"
  /\ pst = <<>>
  /\ reports = <<>>
  /\ jobs = <<>>
  /\ link = FreshLinks
  /\ boot = "task"
  /\ backend = TaskFetched
  /\ serviceType = [storage |-> "GITHUB", publisher |-> Undefined]
  /\ site \in {x \in Sites : x.title = "T"}
  /\ layers = ImageLayers
  /\ hexoConfigFile = NoFile
  /\ merged = <<>>
  /\ confFiles = NoConfFiles
  /\ initLog = <<>>
  /\ metadata = "M"
  /\ tpl \in MarkerTemplates
  /\ fsLog = <<>>

\* One more call of createDotNoJekyllAndCNameFile: it resolves (error is
\* NoError) or rejects with the file operation that failed.
MarkerCall ==
  /\ Len(calls) < MaxMarkerCalls
  /\ Invoke("createDotNoJekyllAndCNameFile")
  /\ IF taskMethod = "PUBLISH_SITE"
       THEN LET prog == MarkerOps(tpl)
            IN \E failAt \in FsFailPoints(tpl, prog) :
                 /\ FsRun(prog, failAt)
                 /\ error' = IF failAt = 0 THEN NoError
                             ELSE [op |-> "createDotNoJekyllAndCNameFile",
                                   cmd |-> prog[failAt].op]
       ELSE /\ error' = [op |-> "createDotNoJekyllAndCNameFile", cmd |-> "assert"]
            /\ UNCHANGED <<tpl, fsLog>>
  /\ UNCHANGED <<input, confFiles, initLog, jobs, link, boot, backend, pc,
                 outcome, merged,
                 hexoConfigFile,
                 gitLog, auth,
                 remote, files, build, fan, pst, reports>>

MarkerNext == MarkerCall

MarkerSpec == MarkerInit /\ [][MarkerNext]_vars

MarkerPaths == {NoJekyllPath, CNamePath}

\* The writes of marker files that succeeded.
MarkerWrites(log, path) ==
  {i \in 1..Len(log) : log[i].op = "writeFile" /\ log[i].path = path /\ log[i].ok}

\* C12: over any number of invocations of createDotNoJekyllAndCNameFile on
\* one output directory each marker file is written at most once, and an
\* invocation that follows a resolved one attempts no write and leaves every
\* marker file as the first left it.
C12_MarkerFilesWrittenOnce ==
  /\ [](\A p \in MarkerPaths : Cardinality(MarkerWrites(fsLog, p)) <= 1)
  /\ [][(/\ Len(calls) >= 1
         /\ error = NoError
         /\ Len(calls') = Len(calls) + 1)
        => (/\ \A p \in MarkerPaths : tpl'[p] = tpl[p]
            /\ \A i \in (Len(fsLog) + 1)..Len(fsLog') : fsLog'[i].op # "writeFile")]_vars

C12_Witness ==
  /\ Len(calls) = 2
  /\ error = NoError
  /\ \A p \in MarkerPaths :
       /\ Cardinality(MarkerWrites(fsLog, p)) = 1
       /\ \A i \in MarkerWrites(fsLog, p) : fsLog[i].call = 1
  /\ tpl[NoJekyllPath] = "\n"
  /\ tpl[CNamePath] = "a.io\n"

\* ------------------------------------------- the config merge on its own
MaxMerges == 2

ConfigFiles == {NoFile, BadFile} \cup {YamlFile(c) : c \in PartialConfs("work")}

\* A Site service on any default config, template config and workspace
\* config file, for a site task or a post task; the dispatcher is not run.
ConfigInit ==
  /\ taskMethod \in {"DEPLOY_SITE", "CREATE_POSTS"}
  /\ post = NoPost
  /\ remotePosts = {}
  /\ pc = 0
  /\ outcome = "running"
  /\ error = NoError
  /\ calls = <<>>
  /\ gitLog = <<>>
  /\ auth = [h \in Handles |-> FALSE]
  /\ remote = [h \in Handles |-> FALSE]
  /\ files = {}
  /\ build = "none"
  /\ fan = "idle"
  /\ pst = <<>>
  /\ reports = <<>>
  /\ jobs = <<>>
  /\ link = FreshLinks
  /\ boot = "task"
  /\ backend = TaskFetched
  /\ serviceType = [storage |-> "GITHUB", publisher |-> Undefined]
  /\ site \in {x \in Sites : x.domain = "a.io"}
  /\ layers \in [deft : PartialConfs("deft"),
                 temp : {NoFile} \cup {YamlFile(c) : c \in PartialConfs("temp")},
                 theme : {NoFile}]
  /\ hexoConfigFile \in ConfigFiles
  /\ merged = <<>>
  /\ confFiles = NoConfFiles
  /\ initLog = <<>>
  /\ metadata = "M"
  /\ tpl = ImageTemplate
  /\ fsLog = <<>>

\* updateWorkspaceHexoConfigFile resolves: the merged config is written.
ConfigWritten ==
  /\ Len(merged) < MaxMerges
  /\ UpdateWorkspaceHexoConfigFile(TRUE)
  /\ UNCHANGED <<input, confFiles, initLog, jobs, link, boot, backend, tpl,
                 fsLog, pc, outcome,
                 error,
                 calls,
                 gitLog, auth,
                 remote, files,
                 build, fan, pst, reports>>

\* updateWorkspaceHexoConfigFile rejects: the write failed.
ConfigWriteFails ==
  /\ Len(merged) < MaxMerges
  /\ UpdateWorkspaceHexoConfigFile(FALSE)
  /\ UNCHANGED <<input, confFiles, initLog, jobs, link, boot, backend, tpl,
                 fsLog, pc, outcome,
                 error,
                 calls,
                 gitLog, auth,
                 remote, files,
                 build, fan, pst, reports>>

ConfigNext == ConfigWritten \/ ConfigWriteFails

ConfigSpec == ConfigInit /\ [][ConfigNext]_vars

\* C11: every merged generator config follows the precedence default <
\* generator default < template < workspace < task-derived: each key has the
\* value of the last layer that holds it, so a key of the default layer and
\* the task-derived layer has the task-derived value, and a key of the
\* default layer alone has the default value.
C11_MergePrecedence ==
  \A i \in 1..Len(merged) :
    LET m == merged[i]
    IN \A k \in ConfigKeys :
         /\ m.final[k] =
              (IF m.user[k] # Absent THEN m.user[k]
               ELSE IF m.work[k] # Absent THEN m.work[k]
               ELSE IF m.temp[k] # Absent THEN m.temp[k]
               ELSE IF m.hexo[k] # Absent THEN m.hexo[k]
               ELSE m.deft[k])
         /\ (m.deft[k] # Absent /\ m.user[k] # Absent) => m.final[k] = m.user[k]
         /\ (/\ m.deft[k] # Absent
             /\ \A l \in {m.hexo, m.temp, m.work, m.user} : l[k] = Absent)
              => m.final[k] = m.deft[k]

C11_Witness ==
  /\ Len(merged) = 1
  /\ merged[1].deft["title"] = "deft"
  /\ merged[1].work["title"] = "work"
  /\ merged[1].user["title"] = "T"
  /\ merged[1].final["title"] = "T"
  /\ merged[1].deft["custom"] = "deft"
  /\ merged[1].final["custom"] = "deft"

\* ------------------------------------------- the Git service on its own
MaxGitCalls == 2

\* The dispatcher at its call of gitServiceFactory, for any task kind, on
\* a workspace directory an earlier task left behind: a checkout of a
\* storage branch, its repository with a remote origin and with or
\* without credentials.
GitInit ==
  /\ taskMethod \in AllowedTasks
  /\ post = NoPost
  /\ remotePosts = {PostPath("B")}
  /\ pc = 1
  /\ outcome = "running"
  /\ error = NoError
  /\ calls = <<>>
  /\ gitLog = <<>>
  /\ auth \in {a \in [Handles -> BOOLEAN] : ~a["pages"]}
  /\ remote = [h \in Handles |-> h = "storage"]
  /\ files = {PostPath("A")}
  /\ build = "none"
  /\ fan = "idle"
  /\ pst = <<>>
  /\ reports = <<>>
  /\ jobs = <<>>
  /\ link = FreshLinks
  /\ boot = "task"
  /\ backend = TaskFetched
  /\ serviceType \in GitInfos(taskMethod)
  /\ site = [title |-> "T", domain |-> "a.io"]
  /\ metadata = "M"
  /\ layers = ImageLayers
  /\ hexoConfigFile = RemoteConfigFile
  /\ confFiles = RemoteConfFiles
  /\ merged = <<>>
  /\ initLog = <<>>
  /\ tpl = ImageTemplate
  /\ fsLog = <<>>

\* The Git service is constructed and fewer than MaxGitCalls of its
\* methods were called.
GitServiceReady ==
  /\ Len(calls) \in 1..MaxGitCalls
  /\ calls[1].op = "gitServiceFactory"
  /\ error.op # "gitServiceFactory"

\* One call of fetchRemoteStorageRepository on the constructed service:
\* it resolves (error is NoError) or rejects with the command that failed.
FetchCall ==
  LET prog == FetchRemoteStorageRepositoryCmds(remote["storage"])
  IN /\ GitServiceReady
     /\ Invoke("fetchRemoteStorageRepository")
     /\ \E failAt \in GitFailPoints("storage", prog) :
          /\ GitRun("storage", remote["storage"], prog, failAt)
          /\ error' = IF failAt = 0 THEN NoError
                      ELSE [op |-> "fetchRemoteStorageRepository",
                            cmd |-> prog[failAt].cmd]
          /\ files' = IF failAt = 0 THEN remotePosts ELSE files
          /\ hexoConfigFile' = IF failAt = 0 THEN RemoteConfigFile
                               ELSE hexoConfigFile
          /\ confFiles' = IF failAt = 0 THEN RemoteConfFiles ELSE confFiles
     /\ UNCHANGED <<input, initLog, jobs, link, boot, backend, fsLog, tpl,
                    merged, pc, outcome, build, fan, pst, reports>>

\* One call of publishSiteToGitHubPages on the constructed service, for a
\* task of any kind.
PublishCall ==
  /\ GitServiceReady
  /\ Invoke("publishSiteToGitHubPages")
  /\ IF taskMethod = "PUBLISH_SITE"
       THEN LET prog == PublishSiteCmds(remote["pages"])
            IN \E failAt \in GitFailPoints("pages", prog) :
                 /\ GitRun("pages", remote["pages"], prog, failAt)
                 /\ error' = IF failAt = 0 THEN NoError
                             ELSE [op |-> "publishSiteToGitHubPages",
                                   cmd |-> prog[failAt].cmd]
       ELSE /\ error' = [op |-> "publishSiteToGitHubPages", cmd |-> "assert"]
            /\ UNCHANGED <<gitLog, auth, remote>>
  /\ UNCHANGED <<input, confFiles, initLog, jobs, link, boot, backend, fsLog,
                 tpl, merged, hexoConfigFile, files, pc, outcome, build, fan,
                 pst, reports>>

GitNext == GitServiceFactory \/ FetchCall \/ PublishCall

GitSpec == GitInit /\ [][GitNext]_vars

\* ------------------------------------- the Site service's initialization
\* A config file that is missing, unparseable, inaccessible or holds v under
\* every key.
LayerFiles(v) == {NoFile, BadFile, Inaccessible, YamlFile([k \in ConfigKeys |-> v])}

SpaceFiles == {NoFile, BadFile, Inaccessible,
               YamlFile([site |-> "work", metadata |-> "work"]),
               YamlFile([site |-> "work", metadata |-> Absent])}

\* The dispatcher at its call of hexoServiceFactory, on any template and
\* workspace config files: a deploy task's workspace was just created, a
\* publish or post task's was checked out from the storage branch. The
\* Git steps before the call are not replayed.
InitializeStart(sites) ==
  /\ taskMethod \in {"DEPLOY_SITE", "PUBLISH_SITE", "CREATE_POSTS"}
  /\ post = NoPost
  /\ remotePosts = {}
  /\ pc = 3
  /\ outcome = "running"
  /\ error = NoError
  /\ calls = <<Call(Pipeline(taskMethod)[1].op), Call(Pipeline(taskMethod)[2].op)>>
  /\ gitLog = <<>>
  /\ auth = [h \in Handles |-> FALSE]
  /\ remote = [h \in Handles |-> FALSE]
  /\ files = {}
  /\ build = "none"
  /\ fan = "idle"
  /\ pst = <<>>
  /\ reports = <<>>
  /\ jobs = <<>>
  /\ link = FreshLinks
  /\ boot = "task"
  /\ backend = TaskFetched
  /\ serviceType = [storage |-> "GITHUB", publisher |-> Undefined]
  /\ site \in sites
  /\ metadata \in {Undefined, "M"}
  /\ layers \in [deft : {EmptyConf}, temp : LayerFiles("temp"),
                 theme : LayerFiles("temp")]
  /\ hexoConfigFile \in (IF taskMethod = "DEPLOY_SITE" THEN {NoFile}
                          ELSE LayerFiles("work"))
  /\ confFiles \in (IF taskMethod = "DEPLOY_SITE" THEN {NoConfFiles}
                     ELSE [theme : LayerFiles("work"), space : SpaceFiles])
  /\ merged = <<>>
  /\ initLog = <<>>
  /\ tpl = ImageTemplate
  /\ fsLog = <<>>

InitializeInit == InitializeStart({[title |-> "T", domain |-> "a.io"]})

InitializeNext == HexoServiceFactory

InitializeSpec == InitializeInit /\ [][InitializeNext]_vars

\* The dispatcher of a site task at its call of hexoServiceFactory, the
\* site's domain given, empty or absent.
DomainInit ==
  /\ InitializeStart([title : {"T"}, domain : {"a.io", "", Undefined}])
  /\ taskMethod \in SiteTasks

DomainSpec == DomainInit /\ [][InitializeNext]_vars

\* ------------------------------------------------------------ properties
Factories == {"gitServiceFactory", "hexoServiceFactory"}

IsOrchestratorCall(c) == c.op \notin Factories

\* The Git and Site orchestrator methods invoked, in order.
OrchestratorOps == Ops(SelectSeq(calls, IsOrchestratorCall))

Invoked(op) == \E i \in 1..Len(calls) : calls[i].op = op

Times(op) == Cardinality({i \in 1..Len(calls) : calls[i].op = op})

\* op1 was invoked, and before any invocation of op2.
Before(op1, op2) ==
  /\ Invoked(op1)
  /\ \A i \in 1..Len(calls) :
       calls[i].op = op2 => \E j \in 1..(i - 1) : calls[j].op = op1

NoSideEffect ==
  /\ gitLog = <<>>
  /\ files = {}
  /\ build = "none"
  /\ fan = "idle"
  /\ reports = <<>>
  /\ \A h \in Handles : ~auth[h] /\ ~remote[h]

\* C1: a task whose method is none of DEPLOY_SITE, PUBLISH_SITE,
\* CREATE_POSTS, UPDATE_POSTS, DELETE_POSTS never gets past the allow-list
\* check: no factory and no orchestrator method is ever invoked, nothing is
\* changed, and startWorkerTask ends only by rejecting at the check.
C1_DisallowedMethodRejectedFirst ==
  taskMethod \notin {"DEPLOY_SITE", "PUBLISH_SITE", "CREATE_POSTS",
                     "UPDATE_POSTS", "DELETE_POSTS"} =>
    /\ calls = <<>>
    /\ NoSideEffect
    /\ pc = 0
    /\ outcome \in {"idle", "running", "rejected"}
    /\ outcome = "rejected" => error.op = "checkAllowedTasks"

C1_Witness ==
  /\ taskMethod = "HEXO_CREATE_POST"
  /\ outcome = "rejected"
  /\ error.op = "checkAllowedTasks"

HandleLog(h) == SelectSeq(gitLog, LAMBDA e : e.h = h)

\* C2: once a fetch or push of the Git service has returned, resolved or
\* rejected, no credentials are configured on the repository: every
\* configureAuth that took effect is followed by a removeAuth on the same
\* handle before the operation returns.
C2_CredentialsRemovedAfterFetchAndPush ==
  \A h \in Handles :
    LET log == HandleLog(h)
    IN /\ ~auth[h]
       /\ \A i \in 1..Len(log) :
            (log[i].cmd = "configureAuth" /\ log[i].ok) =>
              \E j \in (i + 1)..Len(log) : log[j].cmd = "removeAuth"

\* C4: a DEPLOY_SITE task in which every step succeeds invokes exactly
\* createStorageRepository, createWorkspaceSourceDirectory, the commit and
\* the push, once each and in this order, and no other orchestrator method.
C4_DeployCallsInOrder ==
  (taskMethod = "DEPLOY_SITE" /\ outcome = "resolved") =>
    OrchestratorOps = <<"createStorageRepository",
                        "createWorkspaceSourceDirectory",
                        "commitStorageRepositoryAllChanges",
                        "pushStorageRepositoryToRemote">>

C4_Witness ==
  /\ taskMethod = "DEPLOY_SITE"
  /\ outcome = "resolved"
  /\ Invoked("pushStorageRepositoryToRemote")

\* C5: a PUBLISH_SITE task in which every step succeeds invokes exactly
\* fetch, commit, push, symlink, generate, marker files, publish-to-pages,
\* once each and in this order, and no other orchestrator method.
C5_PublishCallsInOrder ==
  (taskMethod = "PUBLISH_SITE" /\ outcome = "resolved") =>
    OrchestratorOps = <<"fetchRemoteStorageRepository",
                        "commitStorageRepositoryAllChanges",
                        "pushStorageRepositoryToRemote",
                        "symlinkWorkspaceDirectoryAndFiles",
                        "generateHexoStaticFiles",
                        "createDotNoJekyllAndCNameFile",
                        "publishSiteToGitHubPages">>

C5_Witness ==
  /\ taskMethod = "PUBLISH_SITE"
  /\ outcome = "resolved"
  /\ Invoked("publishSiteToGitHubPages")

PostSteps == {"createHexoPostFiles", "deleteHexoPostFiles"}

FailedPosts == {i \in 1..Len(pst) : pst[i].status = "rejected"}

FulfilledPosts == {i \in 1..Len(pst) : pst[i].status = "fulfilled"}

\* The processer of post i made at least one generator call.
Attempted(i) == Len(pst[i].log) > 0 \/ pst[i].reason # NoReason

\* The post step's own work went through: if it rejected at all, then not
\* at the delivery of a report.
ReportsAccepted == error.cmd # "reportWorkerTaskErroredToBackend"

PublishOnlySteps == {"symlinkWorkspaceDirectoryAndFiles", "generateHexoStaticFiles",
                     "createDotNoJekyllAndCNameFile", "publishSiteToGitHubPages"}

\* C6 as stated: in a PUBLISH_SITE task the storage repository is committed
\* and pushed only after the static files were generated and the marker
\* files written, and before the publish to the pages repository.
C6_CommitAfterGenerate ==
  taskMethod = "PUBLISH_SITE" =>
    /\ Invoked("commitStorageRepositoryAllChanges") =>
         /\ Before("generateHexoStaticFiles", "commitStorageRepositoryAllChanges")
         /\ Before("createDotNoJekyllAndCNameFile", "commitStorageRepositoryAllChanges")
    /\ Invoked("publishSiteToGitHubPages") =>
         Before("pushStorageRepositoryToRemote", "publishSiteToGitHubPages")

\* C6, amended: in a PUBLISH_SITE task the storage repository is committed
\* and pushed after the fetch and before the symlink, the generation of the
\* static files, the marker files and the publish to the pages repository.
C6_CommitBeforeGenerate ==
  taskMethod = "PUBLISH_SITE" =>
    /\ Invoked("commitStorageRepositoryAllChanges") =>
         Before("fetchRemoteStorageRepository", "commitStorageRepositoryAllChanges")
    /\ Invoked("pushStorageRepositoryToRemote") =>
         Before("commitStorageRepositoryAllChanges", "pushStorageRepositoryToRemote")
    /\ \A op \in PublishOnlySteps :
         Invoked(op) => Before("pushStorageRepositoryToRemote", op)

C6_Witness ==
  /\ taskMethod = "PUBLISH_SITE"
  /\ outcome = "running"
  /\ Invoked("generateHexoStaticFiles")
  /\ Invoked("createDotNoJekyllAndCNameFile")

\* The middle step and the commit message template of a post method.
MiddleOf(m) ==
  CASE m = "CREATE_POSTS" -> CreatePosts(FALSE)
    [] m = "UPDATE_POSTS" -> CreatePosts(TRUE)
    [] m = "DELETE_POSTS" -> Step("deleteHexoPostFiles")

TemplateOf(m) ==
  CASE m = "CREATE_POSTS" -> "Create post"
    [] m = "UPDATE_POSTS" -> "Update post"
    [] m = "DELETE_POSTS" -> "Delete post"

\* C7: a post task in which every step succeeds invokes exactly fetch,
\* symlink, its middle step, commit and push, once each and in this order:
\* createHexoPostFiles(false) and a message starting 'Create post' for
\* CREATE_POSTS, createHexoPostFiles(true) and 'Update post' for
\* UPDATE_POSTS, deleteHexoPostFiles and 'Delete post' for DELETE_POSTS.
C7_PostCallsInOrder ==
  (taskMethod \in PostTasks /\ outcome = "resolved") =>
    LET made == SelectSeq(calls, IsOrchestratorCall)
    IN /\ Len(made) = 5
       /\ made[1] = Step("fetchRemoteStorageRepository")
       /\ made[2] = Step("symlinkWorkspaceDirectoryAndFiles")
       /\ made[3] = MiddleOf(taskMethod)
       /\ made[4].op = "commitStorageRepositoryAllChanges"
       /\ made[4].msg[1] = TemplateOf(taskMethod)
       /\ made[5] = Step("pushStorageRepositoryToRemote")

C7_Witness ==
  /\ taskMethod = "UPDATE_POSTS"
  /\ outcome = "resolved"
  /\ Len(PostArr) > 0
  /\ FailedPosts = {}

\* C8: in every pipeline the calls made are the pipeline's calls in order,
\* each at most once; a call that rejects is the last call made, a Git
\* command that rejects is the last command issued, and startWorkerTask
\* rejects with the error of the rejecting call.
C8_RejectAbortsNoRetry ==
  taskMethod \in AllowedTasks =>
    /\ Len(calls) <= Len(Pipeline(taskMethod))
    /\ calls = SubSeq(Pipeline(taskMethod), 1, Len(calls))
    /\ \A i \in 1..Len(calls) : \A j \in 1..Len(calls) :
         calls[i].op = calls[j].op => i = j
    /\ outcome = "rejected" =>
         /\ Len(calls) = pc
         /\ error.op = Last(calls).op
    /\ \A k \in 1..Len(gitLog) :
         ~gitLog[k].ok =>
           /\ k = Len(gitLog)
           /\ outcome = "rejected"
           /\ error.cmd = gitLog[k].cmd

C8_Witness ==
  /\ taskMethod = "PUBLISH_SITE"
  /\ outcome = "rejected"
  /\ error.op = "pushStorageRepositoryToRemote"
  /\ error.cmd = "push"

Renamed(i) == Truthy(PostArr[i].newTitle)

IsRemoveOf(e, title) == e.cmd = "remove" /\ e.title = title

C13_UnsupportedTypeFailsBeforeMutation ==
  error.cmd = "getRemoteUrl" =>
    /\ ~Invoked("gitServiceFactory")
    /\ \A i \in 1..Len(gitLog) :
         gitLog[i].ok => gitLog[i].cmd \notin {"init", "commit", "remoteRemove"}

\* C14: over every task kind and every execution, a push of the storage
\* repository is never a force push and the push publishSiteToGitHubPages
\* makes of the publisher repository is always a force push.
C14_ForcePushOnlyForPages ==
  \A i \in 1..Len(gitLog) :
    gitLog[i].cmd = "push" =>
      /\ gitLog[i].h = "storage" => ~gitLog[i].force
      /\ gitLog[i].h = "pages" => gitLog[i].force

C14_Witness ==
  /\ outcome = "resolved"
  /\ \E i, j \in 1..Len(gitLog) :
       /\ gitLog[i].cmd = "push" /\ gitLog[i].h = "storage" /\ gitLog[i].ok
       /\ gitLog[j].cmd = "push" /\ gitLog[j].h = "pages" /\ gitLog[j].ok

\* The calls of the given name bootstrap made to the backend.
BackendCalls(name) == {i \in 1..Len(backend) : backend[i].call = name}

\* C15: the finished report is sent only when startWorkerTask resolved with
\* every call of the task's pipeline made, never for a task in which a step
\* rejected; the started report is the first backend call, resolved before
\* the task is fetched and before any step of startWorkerTask.
C15_FinishedOnlyAfterAllSteps ==
  /\ \A i \in BackendCalls("reportWorkerTaskFinishedToBackend") :
       /\ outcome = "resolved"
       /\ error = NoError
       /\ pc = Len(Pipeline(taskMethod)) + 1
       /\ backend[i].at = Len(Pipeline(taskMethod))
       /\ i = Len(backend)
  /\ \A i \in BackendCalls("getWorkerTaskFromBackend") :
       i = 2 /\ backend[1] = TaskFetched[1]
  /\ (outcome # "idle" \/ pc # 0 \/ calls # <<>>) =>
       /\ Len(backend) >= 2
       /\ backend[1] = TaskFetched[1]
       /\ backend[2] = TaskFetched[2]

C15_Witness ==
  /\ boot = "finished"
  /\ taskMethod = "PUBLISH_SITE"
  /\ Last(backend).call = "reportWorkerTaskFinishedToBackend"
  /\ Last(backend).ok

\* C16: whenever startWorkerTask rejects, an errored or failure report for
\* the task is sent to the backend: when bootstrap has ended on a rejected
\* startWorkerTask, the backend has received such a report.
C16_RejectedTaskReportedAsFailure ==
  (boot = "rejected" /\ outcome = "rejected") =>
    \/ reports # <<>>
    \/ \E i \in 1..Len(backend) :
         backend[i].call \notin {"reportWorkerTaskStartedToBackend",
                                 "getWorkerTaskFromBackend"}

SymlinkStepSettled ==
  /\ Invoked("symlinkWorkspaceDirectoryAndFiles")
  /\ ~InSymlinkStep

\* C17: symlinkWorkspaceDirectoryAndFiles backs up every pre-existing
\* destination before linking: once the step has settled, every destination
\* that was there when it was called has its previous content at
\* destination.bak and is a symlink to the workspace path; a destination is
\* linked only after its rename.
C17_ExistingDestinationsBackedUp ==
  /\ SymlinkStepSettled =>
       \A d \in Dests :
         link[d].was # Absent =>
           /\ link[d].bak = link[d].was
           /\ link[d].dst = Symlink
  /\ \A d \in Dests :
       link[d].dst = Symlink => link[d].bak = link[d].was /\ link[d].was # Absent

\* The dispatcher has resumed after its await of op.
Past(op) ==
  /\ Invoked(op)
  /\ pc > Index(Ops(Pipeline(taskMethod)), op)

\* The createSymlink of destination d has been called and has not settled.
Linking(d) == link[d].phase \in {"pending", "renamed"}

\* Work started by a step is in progress only while the dispatcher awaits
\* that step.
StepsDoNotOverlap ==
  /\ Past("generateHexoStaticFiles") => build \notin {"none", "cleaned"}
  /\ \A d \in Dests :
       (Linking(d) /\ outcome = "running") =>
         Current.op = "symlinkWorkspaceDirectoryAndFiles"
  /\ \A i \in 1..Len(pst) :
       Pending(i) => fan = "running" /\ Current.op \in PostSteps
  /\ Invoked("generateHexoStaticFiles") =>
       (\A d \in Dests : ~Linking(d)) /\ pst = <<>>

\* C20 as stated: no two steps of the dispatcher are in progress at once,
\* the work a step started has completed before the next step begins, and
\* the only concurrent work is the per-post fan-out inside a post step.
C20_OnlyPostFanOutIsConcurrent ==
  /\ StepsDoNotOverlap
  /\ Cardinality({d \in Dests : Linking(d)}) <= 1

\* C20: no two steps of the dispatcher are in progress at once: the clean
\* and the build of the generator have run before the dispatcher resumes
\* after generateHexoStaticFiles, createSymlink calls are in progress only
\* inside the symlink step and processers only inside a post step.  The
\* concurrent work is the per-post fan-out and, inside the symlink step, the
\* createSymlink calls of the config files, never the source directory's
\* with them.
C20_ConcurrencyOnlyInsideOneStep ==
  /\ StepsDoNotOverlap
  /\ Linking(SourceDest) => \A d \in ConfigDests : ~Linking(d)

\* The dispatcher has resumed after a generator run that followed a symlink
\* step, generate() not settled yet.
C20_Witness ==
  /\ Past("generateHexoStaticFiles")
  /\ build = "built"
  /\ jobs = <<"generate">>
  /\ \A d \in Dests : link[d].phase = "linked"

\* The generator's clean and build have both run to their end.
BuildFinished == build \in {"built", "done"}

\* C21: in the publish pipeline generateHexoStaticFiles does not return
\* before the build it invoked has finished, and the marker files are
\* written, and publishSiteToGitHubPages commits, only after the clean and
\* the build have completed.
C21_BuildFinishedBeforeReturn ==
  /\ (taskMethod = "PUBLISH_SITE" /\ Invoked("generateHexoStaticFiles")) =>
       BuildFinished
  /\ Invoked("createDotNoJekyllAndCNameFile") => BuildFinished
  /\ Invoked("publishSiteToGitHubPages") => BuildFinished

\* C22: when the generator's clean or build fails during a publish task,
\* the failure reaches the dispatcher: startWorkerTask rejects, and neither
\* createDotNoJekyllAndCNameFile nor publishSiteToGitHubPages is invoked.
C22_BuildFailureRejectsTask ==
  (build \in {"rejected", "warned"} /\ jobs = <<>>) =>
    /\ outcome = "rejected"
    /\ ~Invoked("createDotNoJekyllAndCNameFile")
    /\ ~Invoked("publishSiteToGitHubPages")

OptionalLayers ==
  {layers.temp, hexoConfigFile, layers.theme, confFiles.theme, confFiles.space}

\* C24: a missing, unreadable or unparseable optional config layer
\* degrades to an empty layer: unless a write or the command helper fails,
\* the Site service factory resolves, every step of the initialization
\* completes, the merged main config is written from the remaining layers
\* and the dispatcher goes on to its next step.
C24_OptionalLayersDegrade ==
  (/\ Invoked("hexoServiceFactory")
   /\ error.cmd \notin {"objectToYamlFile", "createCommandHelper"}) =>
    /\ outcome = "running"
    /\ pc = 4
    /\ Len(initLog) = Len(InitializeSteps)
    /\ \A k \in 1..Len(initLog) : initLog[k].ok
    /\ Len(merged) = 1
    /\ layers.temp.kind # "yaml" => merged[1].temp = EmptyConf
    /\ hexoConfigFile \in YamlFiles(merged[1].final)

\* The workspace's config files when hexoServiceFactory is called: none in
\* a deploy task's new workspace, the storage branch's otherwise.
FilesBeforeInitialize ==
  IF taskMethod = "DEPLOY_SITE"
    THEN NoConfFiles ELSE RemoteConfFiles

WriteFailedAt(k) ==
  /\ Len(initLog) >= k
  /\ ~initLog[k].ok
  /\ initLog[k].reason = "objectToYamlFile"

\* C25: when the write of the merged main, theme or space config fails,
\* the Site service factory rejects with that error and startWorkerTask
\* with it, the config files after the failed one are as they were before,
\* the command helper is not started and hexoServiceFactory is the last
\* call the dispatcher made.
C25_WriteFailureAborts ==
  \A k \in 1..3 :
    WriteFailedAt(k) =>
      /\ Len(initLog) = k
      /\ \A j \in 1..Len(initLog) : initLog[j].step # "createCommandHelper"
      /\ outcome = "rejected"
      /\ error = [op |-> "hexoServiceFactory", cmd |-> "objectToYamlFile"]
      /\ calls[Len(calls)].op = "hexoServiceFactory"
      /\ k < 2 => confFiles.theme = FilesBeforeInitialize.theme
      /\ k < 3 => confFiles.space = FilesBeforeInitialize.space

C25_Witness ==
  /\ WriteFailedAt(2)
  /\ hexoConfigFile \in YamlFiles(merged[1].final)
  /\ outcome = "rejected"
  /\ boot = "rejected"

\* C26: the initialization makes its steps in the order main config,
\* theme config, space config, command helper, each at most once and each
\* only after the one before it completed; once hexoServiceFactory has
\* resolved each of the four was made exactly once and the three config
\* files are written.
C26_InitializeOrder ==
  LET order == <<"updateWorkspaceHexoConfigFile",
                 "updateWorkspaceThemeConfigFile",
                 "updateWorkspaceMetaSpaceConfigFile", "createCommandHelper">>
  IN /\ Len(initLog) <= 4
     /\ \A k \in 1..Len(initLog) :
          /\ initLog[k].step = order[k]
          /\ k < Len(initLog) => initLog[k].ok
     /\ (Invoked("hexoServiceFactory") /\ error.op # "hexoServiceFactory") =>
          /\ Len(initLog) = 4
          /\ \A k \in 1..4 : initLog[k].ok
          /\ hexoConfigFile.kind = "yaml"
          /\ confFiles.theme.kind = "yaml"
          /\ confFiles.space.kind = "yaml"
     /\ ~Invoked("hexoServiceFactory") => initLog = <<>>

C26_Witness ==
  /\ Len(initLog) = 4
  /\ initLog[4].step = "createCommandHelper"
  /\ initLog[4].ok
  /\ outcome = "resolved"

NewGitLog == SubSeq(gitLog', Len(gitLog) + 1, Len(gitLog'))

\* The command names of a piece of the Git log, those in keep only.
CmdNames(seg, keep) ==
  LET sel == SelectSeq(seg, LAMBDA e : e.cmd \in keep)
  IN [i \in 1..Len(sel) |-> sel[i].cmd]

\* s is t or a beginning of t.
IsPrefix(s, t) == Len(s) <= Len(t) /\ s = SubSeq(t, 1, Len(s))

\* C28: a call of publishSiteToGitHubPages for a task that is not a publish
\* task rejects on its assertion and issues no Git command. For a publish
\* task every command goes to the handle of the output directory, none to
\* the storage handle; init (on the publisher's branch), stage-all, commit
\* and push (forced) are issued in this order, each at most once, a later
\* one only after the earlier ones succeeded, and all four exactly once
\* when the call resolves.
C28_PublishOnSeparateHandle ==
  [][calls' = Append(calls, Call("publishSiteToGitHubPages")) =>
       LET seg == NewGitLog
           main == CmdNames(seg, {"init", "addAll", "commit", "push"})
       IN /\ taskMethod # "PUBLISH_SITE" =>
               /\ seg = <<>>
               /\ error' = [op |-> "publishSiteToGitHubPages", cmd |-> "assert"]
               /\ auth' = auth /\ remote' = remote
          /\ taskMethod = "PUBLISH_SITE" =>
               /\ \A i \in 1..Len(seg) :
                    /\ seg[i].h = "pages"
                    /\ seg[i].cmd = "init" => seg[i].branch = "pages"
                    /\ seg[i].cmd = "push" => seg[i].force
                    /\ i < Len(seg) => seg[i].ok
               /\ IsPrefix(main, <<"init", "addAll", "commit", "push">>)
               /\ error' = NoError =>
                    /\ main = <<"init", "addAll", "commit", "push">>
                    /\ seg[Len(seg)].ok]_vars

C28_Witness ==
  /\ taskMethod = "PUBLISH_SITE"
  /\ Len(calls) = 2
  /\ calls[2].op = "publishSiteToGitHubPages"
  /\ error = NoError
  /\ CmdNames(gitLog, {"init", "addAll", "commit", "push"}) =
       <<"init", "addAll", "commit", "push">>
  /\ \A i \in 1..Len(gitLog) : gitLog[i].h = "pages" /\ gitLog[i].ok

\* C29: a call of fetchRemoteStorageRepository issues, on the storage
\* handle, init, the remote lookup, the removal of origin if one exists,
\* the url computation, the addition of origin, configure credentials,
\* fetch, remove credentials and checkout, in this order, each only after
\* the one before it succeeded: origin is added only when none exists or
\* the existing one was removed, and checkout is issued only after fetch
\* succeeded.
C29_FetchOrder ==
  [][calls' = Append(calls, Call("fetchRemoteStorageRepository")) =>
       LET seg == NewGitLog
           all == {"init", "remoteShow", "remoteRemove", "getRemoteUrl",
                   "remoteAdd", "configureAuth", "fetch", "removeAuth",
                   "checkout"}
           at(c) == {i \in 1..Len(seg) : seg[i].cmd = c}
       IN /\ IsPrefix(CmdNames(seg, all \ {"remoteShow", "remoteRemove",
                                            "getRemoteUrl"}),
                      <<"init", "remoteAdd", "configureAuth", "fetch",
                        "removeAuth", "checkout">>)
          /\ Len(CmdNames(seg, all)) = Len(seg)
          /\ \A i \in 1..Len(seg) :
               /\ seg[i].h = "storage"
               /\ i < Len(seg) => seg[i].ok
          /\ \A i \in at("remoteRemove") :
               /\ remote["storage"]
               /\ \E j \in at("init") : j < i
               /\ \A j \in at("remoteAdd") : i < j
          /\ \A i \in at("remoteAdd") :
               remote["storage"] =>
                 \E j \in at("remoteRemove") : j < i /\ seg[j].ok
          /\ \A i \in at("checkout") :
               \E j \in at("fetch") : j < i /\ seg[j].ok
          /\ error' = NoError =>
               /\ at("checkout") # {}
               /\ seg[Len(seg)].ok]_vars

C29_Witness ==
  /\ Len(calls) = 3
  /\ calls[2].op = "fetchRemoteStorageRepository"
  /\ calls[3].op = "fetchRemoteStorageRepository"
  /\ error = NoError
  /\ CmdNames(gitLog, {"remoteRemove", "remoteAdd", "fetch", "checkout"}) =
       <<"remoteAdd", "fetch", "checkout",
         "remoteRemove", "remoteAdd", "fetch", "checkout">>
  /\ \A i \in 1..Len(gitLog) : gitLog[i].ok

\* C30: once the Git service factory has resolved and before any Git
\* command is issued, the workspace directory holds no file the earlier
\* task left and no repository; Git commands are issued only after the
\* factory resolved. This holds for every task kind.
C30_WorkspaceRecreatedEmpty ==
  /\ (/\ Invoked("gitServiceFactory")
      /\ error.op # "gitServiceFactory"
      /\ gitLog = <<>>) =>
       /\ files = {}
       /\ hexoConfigFile = NoFile
       /\ confFiles = NoConfFiles
       /\ ~remote["storage"]
       /\ ~auth["storage"]
  /\ gitLog # <<>> =>
       /\ calls[1].op = "gitServiceFactory"
       /\ error.op # "gitServiceFactory"

C30_Witness ==
  /\ taskMethod = "DELETE_POSTS"
  /\ Len(calls) = 1
  /\ calls[1].op = "gitServiceFactory"
  /\ outcome = "running"
  /\ pc = 2
  /\ files = {}
  /\ gitLog = <<>>

\* The content the generator directory shipped at a destination.
Shipped(d) == IF d = SourceDest THEN Dir ELSE File

\* C31: when symlinkWorkspaceDirectoryAndFiles is invoked on a generator
\* directory a prior task has linked, the step resolves, every destination
\* is a symlink to the current workspace path and the backup the prior
\* task made of the shipped content is still at destination.bak.
C31_RelinkKeepsFirstBackup ==
  (/\ SymlinkStepSettled
   /\ \A d \in Dests : link[d].was = PriorSymlink) =>
    /\ error.op # "symlinkWorkspaceDirectoryAndFiles"
    /\ \A d \in Dests :
         /\ link[d].dst = Symlink
         /\ link[d].bak = Shipped(d)

\* C32: a createSymlink whose destination does not exist makes no backup
\* rename and does not reject: once it has settled the destination is a
\* symlink to the source and nothing is at destination.bak.
C32_MissingDestinationLinkedWithoutRename ==
  \A d \in ConfigDests :
    (/\ Invoked("symlinkWorkspaceDirectoryAndFiles")
     /\ link[d].was = Absent
     /\ ~Linking(d)) =>
      /\ link[d].phase = "linked"
      /\ link[d].dst = Symlink
      /\ link[d].bak = Absent

\* C33: a post whose rename marker is absent or empty has no remove among
\* the generator calls of createHexoPostFiles, and its create is made under
\* the post's own title.
C33_UnmarkedPostCreatedUnderOwnTitle ==
  (Invoked("createHexoPostFiles") /\ fan # "idle") =>
    \A i \in 1..Len(pst) :
      ~Truthy(PostArr[i].newTitle) =>
        \A k \in 1..Len(pst[i].log) :
          /\ pst[i].log[k].cmd = "create"
          /\ pst[i].log[k].title = PostArr[i].title

\* The generator calls of a batch's processers run one processer after the
\* other, in batch order.
RECURSIVE InBatchOrder(_, _, _)
InBatchOrder(arr, n, update) ==
  IF n = 0 THEN <<>>
  ELSE InBatchOrder(arr, n - 1, update) \o CreateProcesser(arr[n], update)

\* The files left by a sequence of generator calls made one after the other.
RECURSIVE FilesAfter(_, _)
FilesAfter(fs, cs) ==
  IF cs = <<>> THEN fs ELSE FilesAfter(GenApply(fs, Head(cs)), Tail(cs))

\* C34: when every processer of a createHexoPostFiles batch has fulfilled,
\* the post files present are those the processers leave when run one after
\* the other, whatever the order in which their generator calls were
\* interleaved.
C34_PostFilesIndependentOfInterleaving ==
  (/\ At("createHexoPostFiles")
   /\ fan = "running"
   /\ \A i \in 1..Len(pst) : pst[i].status = "fulfilled") =>
    files = FilesAfter(remotePosts,
                       InBatchOrder(PostArr, Len(PostArr), Current.update))

\* The reports of the rejected posts, in batch order.
RejectedReports == [k \in 1..Len(Rejected(pst)) |-> Report(Rejected(pst)[k])]

\* C35: when the error report of a failed post rejects, the reports sent are
\* those of the failed posts before it and none of a later one, the post
\* step and with it startWorkerTask reject, and neither commit nor push is
\* executed.
C35_FailedReportStopsReportsAndPipeline ==
  error.cmd = "reportWorkerTaskErroredToBackend" =>
    /\ outcome = "rejected"
    /\ error.op \in PostSteps
    /\ Len(reports) < Len(RejectedReports)
    /\ IsPrefix(reports, RejectedReports)
    /\ ~Invoked("commitStorageRepositoryAllChanges")
    /\ ~Invoked("pushStorageRepositoryToRemote")
    /\ \A i \in 1..Len(gitLog) : gitLog[i].cmd \notin {"commit", "push"}

\* The report of the first of two failed posts rejected: the second post's
\* report was never sent.
C35_Witness ==
  /\ error.cmd = "reportWorkerTaskErroredToBackend"
  /\ Len(Rejected(pst)) = 2
  /\ reports = <<>>
  /\ outcome = "rejected"

\* Command c was issued on the storage handle and resolved.
StorageCmdDone(c) ==
  \E i \in 1..Len(gitLog) :
    gitLog[i].h = "storage" /\ gitLog[i].cmd = c /\ gitLog[i].ok

\* The storage repository is in place for the Site service: created for a
\* deploy, fetched and checked out for the other tasks.
StorageReady ==
  IF taskMethod = "DEPLOY_SITE"
    THEN /\ Before("createStorageRepository", "hexoServiceFactory")
         /\ StorageCmdDone("init")
    ELSE /\ Before("fetchRemoteStorageRepository", "hexoServiceFactory")
         /\ StorageCmdDone("fetch")
         /\ StorageCmdDone("checkout")

\* C36: the Site service is constructed only after the storage repository
\* was created (deploy) or fetched and checked out (publish and post tasks);
\* the commit is made only after the construction wrote the three config
\* files, and no later step changes them, so the stage-all of the commit
\* finds them as the construction wrote them.
C36_SiteServiceAfterStorageReady ==
  /\ [](Invoked("hexoServiceFactory") => StorageReady)
  /\ [](Invoked("commitStorageRepositoryAllChanges") =>
          /\ Before("hexoServiceFactory", "commitStorageRepositoryAllChanges")
          /\ Len(initLog) = Len(InitializeSteps)
          /\ \A k \in 1..Len(initLog) : initLog[k].ok)
  /\ [][Invoked("hexoServiceFactory") =>
          /\ hexoConfigFile' = hexoConfigFile
          /\ confFiles' = confFiles]_vars

\* A post task committed after the Site service was constructed on the
\* checked-out repository.
C36_Witness ==
  /\ taskMethod = "CREATE_POSTS"
  /\ StorageReady
  /\ Invoked("hexoServiceFactory")
  /\ StorageCmdDone("commit")
  /\ hexoConfigFile.kind = "yaml"

\* Every Git command issued so far resolved.
AllGitCommandsSucceeded == \A i \in 1..Len(gitLog) : gitLog[i].ok

AuthCmds == {"configureAuth", "removeAuth"}

\* The configureAuth and removeAuth calls made on handle h, in order.
AuthLog(h) == SelectSeq(HandleLog(h), LAMBDA e : e.cmd \in AuthCmds)

\* Credentials are configured on handle h when command i of gitLog is issued.
CredentialsAt(h, i) ==
  LET prev == {j \in 1..(i - 1) : /\ gitLog[j].h = h
                                  /\ gitLog[j].cmd \in AuthCmds
                                  /\ gitLog[j].ok}
  IN /\ prev # {}
     /\ gitLog[CHOOSE j \in prev : \A k \in prev : k <= j].cmd = "configureAuth"

SiteServiceOps ==
  {"hexoServiceFactory", "createWorkspaceSourceDirectory",
   "symlinkWorkspaceDirectoryAndFiles", "generateHexoStaticFiles",
   "createDotNoJekyllAndCNameFile", "createHexoPostFiles",
   "deleteHexoPostFiles"}

\* C37: while every Git command has succeeded, the configureAuth and
\* removeAuth calls of each handle alternate, configureAuth first; a
\* configureAuth is followed on its handle by one fetch or push and then by
\* its removeAuth; no credentials are configured on any handle when init,
\* checkout, stage-all or commit is issued, nor while the last call made is
\* a Site service operation.
C37_AuthWindowHoldsOneTransfer ==
  AllGitCommandsSucceeded =>
    /\ \A h \in Handles :
         LET log == HandleLog(h)
             al == AuthLog(h)
         IN /\ \A k \in 1..Len(al) :
                 al[k].cmd = (IF k % 2 = 1 THEN "configureAuth" ELSE "removeAuth")
            /\ \A i \in 1..Len(log) :
                 log[i].cmd = "configureAuth" =>
                   /\ i + 2 <= Len(log)
                   /\ log[i + 1].cmd \in {"fetch", "push"}
                   /\ log[i + 2].cmd = "removeAuth"
    /\ \A i \in 1..Len(gitLog) :
         gitLog[i].cmd \in {"init", "checkout", "addAll", "commit"} =>
           \A h \in Handles : ~CredentialsAt(h, i)
    /\ (calls # <<>> /\ Last(calls).op \in SiteServiceOps) =>
         \A h \in Handles : ~auth[h]

\* A publish task ran to its end with every Git command succeeding: a fetch
\* and a push on the storage handle, a push on the pages handle, and Site
\* service operations between them.
C37_Witness ==
  /\ taskMethod = "PUBLISH_SITE"
  /\ outcome = "resolved"
  /\ AllGitCommandsSucceeded
  /\ Len(AuthLog("storage")) = 4
  /\ Len(AuthLog("pages")) = 2

C37_WitnessSiteOp ==
  /\ AllGitCommandsSucceeded
  /\ calls # <<>>
  /\ Last(calls).op = "createHexoPostFiles"
  /\ fan = "running"
  /\ StorageCmdDone("removeAuth")

\* C38: a run in which the health check ticked ends as a run without it
\* does: the process is not ended before startWorkerTask settled, except by
\* the unhandled rejection of the generator's build, whether the reports of
\* the ticks succeeded or failed.
C38_HeartbeatLeavesPipelineAlone ==
  HealthBeats > 0 => (boot = "crashed" => build = "rejected")

\* C39: every call of startWorkerTask settles: once it is running it
\* eventually resolves or rejects, the join of the per-post fan-out
\* included.
C39_StartWorkerTaskSettles ==
  (outcome = "running") ~> (outcome \in {"resolved", "rejected"})

C39_SettlesUnlessProcessEnds ==
  (outcome = "running") ~> (outcome \in {"resolved", "rejected"} \/ boot = "crashed")

\* C40: for a deploy or publish task whose site domain is empty or absent
\* the derivation of the task layer does not fail: its 'url' is the default
\* public URL, and the initialization is not rejected by the derivation.
C40_EmptyDomainFallsBackToDefaultUrl ==
  (/\ taskMethod \in SiteTasks
   /\ ~Truthy(site.domain)
   /\ Invoked("hexoServiceFactory")) =>
    /\ TaskUrl = DEFAULT_HEXO_PUBLIC_URL
    /\ ~(error.op = "hexoServiceFactory" /\ error.cmd = "formatUrl")
    /\ \A k \in 1..Len(initLog) : initLog[k].reason # "formatUrl"

\* C10: when a CREATE_POSTS batch in which some posts fail and others
\* succeed has been committed and pushed, the file of every successful post
\* is in the workspace, one commit and one push were executed, and the
\* reports sent are those of the failing posts.
C10_PartialBatchKeepsSuccessfulPosts ==
  (/\ taskMethod = "CREATE_POSTS"
   /\ outcome = "resolved"
   /\ FailedPosts # {}
   /\ FulfilledPosts # {}) =>
    /\ \A i \in FulfilledPosts : Last(pst[i].log).path \in files
    /\ Times("commitStorageRepositoryAllChanges") = 1
    /\ Times("pushStorageRepositoryToRemote") = 1
    /\ Len(reports) = Cardinality(FailedPosts)
    /\ \A k \in 1..Len(reports) :
         reports[k].title \in {PostArr[i].title : i \in FailedPosts}

====
